---- MODULE Spec2Model ----
(***************************************************************************)
(* Model of the geo-bucket resolution engine of Expert-Listing:           *)
(* PropertyService.create_property, GeoBucketService.find_or_create_bucket *)
(* and GeoBucketService.increment_property_count running in concurrent    *)
(* sessions against one PostgreSQL store (READ COMMITTED, unique index on *)
(* geo_buckets.h3_index), with the Transaction / @transactional scopes.   *)
(*                                                                         *)
(* Strings are sequences of one-character strings.                        *)
(***************************************************************************)
EXTENDS Integers, Sequences, FiniteSets, TLC

(***************************************************************************)
(* Characters and string helpers (Python str methods and re.sub calls     *)
(* used by LocationUtils).                                                 *)
(***************************************************************************)
UpperChars == <<"A", "B", "C", "D", "E", "F", "G", "H", "I", "J", "K", "L", "M",
                "N", "O", "P", "Q", "R", "S", "T", "U", "V", "W", "X", "Y", "Z">>

LowerChars == <<"a", "b", "c", "d", "e", "f", "g", "h", "i", "j", "k", "l", "m",
                "n", "o", "p", "q", "r", "s", "t", "u", "v", "w", "x", "y", "z">>

Digits == {"0", "1", "2", "3", "4", "5", "6", "7", "8", "9"}

\* an accented letter is one character, written here by name
AccentedLower == {"e_acute"}

Range(s) == {s[i] : i \in DOMAIN s}

IsSpace(c) == c = " "

IsAlnum(c) == c \in Range(LowerChars) \cup Range(UpperChars) \cup Digits \cup AccentedLower \cup {"E_acute"}

\* \w of the re module: letters, digits and the underscore
IsWordChar(c) == IsAlnum(c) \/ c = "_"

\* str.lower() on one character
ToLower(c) ==
    IF c \in Range(UpperChars)
    THEN LowerChars[CHOOSE i \in DOMAIN UpperChars : UpperChars[i] = c]
    ELSE IF c = "E_acute" THEN "e_acute" ELSE c

lower(s) == [i \in DOMAIN s |-> ToLower(s[i])]

RECURSIVE LStripSet(_, _)
LStripSet(s, cs) ==
    IF s # <<>> /\ Head(s) \in cs THEN LStripSet(Tail(s), cs) ELSE s

RECURSIVE RStripSet(_, _)
RStripSet(s, cs) ==
    IF s # <<>> /\ s[Len(s)] \in cs THEN RStripSet(SubSeq(s, 1, Len(s) - 1), cs) ELSE s

\* str.strip()
strip(s) == RStripSet(LStripSet(s, {" "}), {" "})

\* re.sub(r"\s+", " ", s)
RECURSIVE CollapseWhitespace(_)
CollapseWhitespace(s) ==
    IF s = <<>> THEN <<>>
    ELSE IF IsSpace(Head(s))
         THEN <<" ">> \o CollapseWhitespace(LStripSet(s, {" "}))
         ELSE <<Head(s)>> \o CollapseWhitespace(Tail(s))

\* re.sub(r'["\']', "", s)
RemoveQuotes(s) == SelectSeq(s, LAMBDA c : c \notin {"\"", "'"})

\* str.split(sep) for a one-character separator
RECURSIVE split(_, _)
split(s, sep) ==
    IF \A i \in DOMAIN s : s[i] # sep THEN <<s>>
    ELSE LET k == CHOOSE i \in DOMAIN s : s[i] = sep /\ \A j \in 1..(i - 1) : s[j] # sep
         IN  <<SubSeq(s, 1, k - 1)>> \o split(SubSeq(s, k + 1, Len(s)), sep)

\* the maximal runs of word / non-word characters of s, in order
RECURSIVE Runs(_)
Runs(s) ==
    IF s = <<>> THEN <<>>
    ELSE LET w == IsWordChar(Head(s))
             n == IF \A i \in DOMAIN s : IsWordChar(s[i]) = w THEN Len(s)
                  ELSE (CHOOSE i \in DOMAIN s :
                            /\ IsWordChar(s[i]) # w
                            /\ \A j \in 1..(i - 1) : IsWordChar(s[j]) = w) - 1
         IN  <<SubSeq(s, 1, n)>> \o Runs(SubSeq(s, n + 1, Len(s)))

RECURSIVE Concat(_)
Concat(ss) == IF ss = <<>> THEN <<>> ELSE Head(ss) \o Concat(Tail(ss))

(***************************************************************************)
(* LocationUtils                                                           *)
(***************************************************************************)
\* the words of LOCATION_PATTERNS[0] and LOCATION_PATTERNS[2]
PatternWords ==
    { <<"a","r","e","a">>, <<"e","s","t","a","t","e">>, <<"p","h","a","s","e">>,
      <<"e","x","t","e","n","s","i","o","n">>, <<"e","x","t">>,
      <<"s","t","r","e","e","t">>, <<"s","t">>, <<"r","o","a","d">>, <<"r","d">>,
      <<"a","v","e","n","u","e">>, <<"a","v","e">>, <<"c","l","o","s","e">>,
      <<"c","r","e","s","c","e","n","t">>, <<"c","r","e","s">>, <<"l","g","a">> }

IsDigits(w) == w # <<>> /\ \A i \in DOMAIN w : w[i] \in Digits

\* LOCATION_PATTERNS[1] on one word: phase\d+ or ext\d+ (the form with \s+
\* between never matches, LOCATION_PATTERNS[0] has removed the bare word)
IsNumbered(w) ==
    \/ Len(w) > 5 /\ lower(SubSeq(w, 1, 5)) = <<"p","h","a","s","e">> /\ IsDigits(SubSeq(w, 6, Len(w)))
    \/ Len(w) > 3 /\ lower(SubSeq(w, 1, 3)) = <<"e","x","t">> /\ IsDigits(SubSeq(w, 4, Len(w)))

\* every pattern is anchored by \b on both sides, so it removes whole words
RemovedWord(w) ==
    /\ w # <<>>
    /\ IsWordChar(w[1])
    /\ \/ lower(w) \in PatternWords
       \/ IsNumbered(w)
       \/ IsDigits(w)

remove_accents(s) == [i \in DOMAIN s |-> IF s[i] = "e_acute" THEN "e" ELSE s[i]]

remove_location_patterns(s) ==
    strip(Concat(SelectSeq(Runs(s), LAMBDA r : ~RemovedWord(r))))

\* SEPARATORS is a Python set: its iteration order is not fixed by the
\* program, seps is the order of one run
Separators == {",", "-", "/", "\\", "|", ";"}

RECURSIVE extract_primary_location(_, _)
extract_primary_location(s, seps) ==
    IF seps = <<>> THEN s
    ELSE LET sep   == Head(seps)
             parts == SelectSeq([i \in DOMAIN split(s, sep) |-> strip(split(s, sep)[i])],
                                LAMBDA q : q # <<>>)
         IN  IF sep \in Range(s) /\ parts # <<>>
             THEN parts[1]
             ELSE extract_primary_location(s, Tail(seps))

\* re.sub(r"^[,\-\s]+|[,\-\s]+$", "", s)
TrimRemnants(s) == RStripSet(LStripSet(s, {",", "-", " "}), {",", "-", " "})

normalize(location, seps) ==
    IF location = <<>> THEN <<>>
    ELSE LET n1 == strip(lower(location))
             n2 == remove_accents(n1)
             n3 == CollapseWhitespace(n2)
             n4 == RemoveQuotes(n3)
             p1 == extract_primary_location(n4, seps)
             p2 == remove_location_patterns(p1)
             p3 == TrimRemnants(p2)
         IN  strip(p3)

(***************************************************************************)
(* pg_trgm similarity(text, text), the store's string-similarity function *)
(* used by the fuzzy lookup: the share of common trigrams.                *)
(***************************************************************************)
RECURSIVE AlnumWords(_)
AlnumWords(s) ==
    LET t == LStripSet(s, {c \in Range(s) : ~IsAlnum(c)})
    IN  IF t = <<>> THEN {}
        ELSE LET n == IF \A i \in DOMAIN t : IsAlnum(t[i]) THEN Len(t)
                      ELSE (CHOOSE i \in DOMAIN t :
                                ~IsAlnum(t[i]) /\ \A j \in 1..(i - 1) : IsAlnum(t[j])) - 1
             IN  {SubSeq(t, 1, n)} \cup AlnumWords(SubSeq(t, n + 1, Len(t)))

Trigrams(s) ==
    UNION { LET padded == <<" ", " ">> \o lower(w) \o <<" ">>
            IN  {SubSeq(padded, i, i + 2) : i \in 1..(Len(padded) - 2)}
          : w \in AlnumWords(s) }

\* similarity(a, b) > num / den
similarity_gt(a, b, num, den) ==
    LET shared == Cardinality(Trigrams(a) \cap Trigrams(b))
        total  == Cardinality(Trigrams(a) \cup Trigrams(b))
    IN  total > 0 /\ shared * den > num * total

(***************************************************************************)
(* Bounds and input domains                                                *)
(***************************************************************************)
NumProcs == 2

\* the number of service calls made in one behaviour
MaxOps == 2

\* how deep Transaction blocks and @transactional calls are nested
MaxDepth == 3

Procs == 1..NumProcs

\* longitudes of the incoming coordinates, one per resolution-8 cell
Lngs == {1, 2, 3}

Lats == {6}

RawBadore == <<"B", "a", "d", "o", "r", "e">>

RawBadoreII == <<"B", "a", "d", "o", "r", "e", " ", "I", "I">>

RawAjah == <<"A", "j", "a", "h">>

RawNames == {RawBadore, RawBadoreII, RawAjah}

Titles == {"t1"}

\* iteration orders of the SEPARATORS set
SepOrders == { <<",", "-", "/", "\\", "|", ";">>, <<"\\", "|", "-", ";", "/", ",">> }

(***************************************************************************)
(* H3Utils: the hexagonal grid is a line of cells, cell 800 + lng at      *)
(* resolution 8, and grid_disk(h, 1) is the cell with its two neighbours. *)
(***************************************************************************)
latlng_to_cell(lat, lng, res) ==
    CASE res = 7 -> 700 + (lng \div 4)
      [] res = 8 -> 800 + lng
      [] res = 9 -> 900 + lng

calculate_h3_indexes(lat, lng) ==
    [h3_r7 |-> latlng_to_cell(lat, lng, 7),
     h3_r8 |-> latlng_to_cell(lat, lng, 8),
     h3_r9 |-> latlng_to_cell(lat, lng, 9)]

create_point_geometry(lat, lng) == <<"POINT", lng, lat>>

\* the centre and the boundary of a cell, as functions of the cell
h3_to_geometry(h3_index) ==
    [center |-> <<"POINT", h3_index>>, hexagon |-> <<"POLYGON", h3_index>>]

\* mutant: the disk is one ring too wide
get_neighbor_h3s_wide(h3_index, k) == (h3_index - k - 1)..(h3_index + k + 1)

get_neighbor_h3s(h3_index, k) == (h3_index - k)..(h3_index + k)

(***************************************************************************)
(* State                                                                   *)
(***************************************************************************)
VARIABLES
    buckets,        \* committed rows of geo_buckets
    properties,     \* committed rows of properties
    bucket_seq,     \* next value of the geo_buckets id sequence
    property_seq,   \* next value of the properties id sequence
    pc,             \* per task: position in the running call
    op,             \* per task: the service call being run
    args,           \* per task: its arguments
    level,          \* per task: _transaction_level (a ContextVar)
    new_buckets,    \* per session: flushed, uncommitted bucket inserts
    new_props,      \* per session: flushed, uncommitted property inserts
    dirty,          \* per session: flushed, uncommitted property_count updates
    loc,            \* per task: local variables of the call
    ret,            \* per task: where save_changes returns to after its commit
    err,            \* per task: the exception that reached the caller
    cause,          \* per task: what raised first (bookkeeping)
    made,           \* per task: ids of the rows the call inserted (bookkeeping)
    calls,          \* number of calls made so far
    last,           \* the call that returned last, when it ran alone (bookkeeping)
    scopes,         \* per task: the open Transaction blocks and @transactional calls
    commits,        \* per session: session.commit() calls made by scope exits and saves
    rollbacks,      \* per session: session.rollback() calls made by scope exits
    stats           \* per task: what its last get_stats call returned

vars == <<buckets, properties, bucket_seq, property_seq, pc, op, args, level,
          new_buckets, new_props, dirty, loc, ret, err, cause, made, calls, last,
          scopes, commits, rollbacks, stats>>

txvars == <<scopes, commits, rollbacks>>

store == <<buckets, properties>>

NoBucket == [id |-> 0]

NoError == [type |-> "none", message |-> ""]

NoLoc == [h3 |-> [h3_r7 |-> 0, h3_r8 |-> 0, h3_r9 |-> 0], normalized_name |-> <<>>,
          bucket |-> NoBucket, geo_bucket |-> NoBucket, property_id |-> 0]

NoArgs == [none |-> TRUE]

NoCall == [op |-> "none"]

NoStats == [none |-> TRUE]

\* mutant: the cell and its parent change places in the schema
NewBucket_Swapped(id, h3_index_r8, location_name, normalized_name, parent_h3) ==
    [id |-> id,
     h3_index |-> parent_h3,
     h3_resolution |-> 8,
     canonical_name |-> location_name,
     canonical_name_normalized |-> normalized_name,
     center_point |-> h3_to_geometry(h3_index_r8).center,
     hexagon_boundary |-> h3_to_geometry(h3_index_r8).hexagon,
     parent_h3 |-> h3_index_r8,
     property_count |-> 0]

\* mutant: the normalized name is stored as the canonical name
NewBucket_NormalizedName(id, h3_index_r8, location_name, normalized_name, parent_h3) ==
    [id |-> id,
     h3_index |-> h3_index_r8,
     h3_resolution |-> 8,
     canonical_name |-> normalized_name,
     canonical_name_normalized |-> normalized_name,
     center_point |-> h3_to_geometry(h3_index_r8).center,
     hexagon_boundary |-> h3_to_geometry(h3_index_r8).hexagon,
     parent_h3 |-> parent_h3,
     property_count |-> 0]

\* GeoBucket(**schema) as built by find_or_create_bucket, with its new id
NewBucket(id, h3_index_r8, location_name, normalized_name, parent_h3) ==
    [id |-> id,
     h3_index |-> h3_index_r8,
     h3_resolution |-> 8,
     canonical_name |-> location_name,
     canonical_name_normalized |-> normalized_name,
     center_point |-> h3_to_geometry(h3_index_r8).center,
     hexagon_boundary |-> h3_to_geometry(h3_index_r8).hexagon,
     parent_h3 |-> parent_h3,
     property_count |-> 0]

\* stores left by earlier find_or_create_bucket calls
SeedBucket(id, lng) ==
    NewBucket(id, latlng_to_cell(6, lng, 8), RawBadore,
              normalize(RawBadore, <<",">>), latlng_to_cell(6, lng, 7))

InitStores == { {}, {SeedBucket(1, 1)}, {SeedBucket(1, 1), SeedBucket(2, 3)} }

\* no call is running
InitTasks ==
    /\ pc = [p \in Procs |-> "idle"]
    /\ op = [p \in Procs |-> "none"]
    /\ args = [p \in Procs |-> NoArgs]
    /\ level = [p \in Procs |-> 0]
    /\ new_buckets = [p \in Procs |-> {}]
    /\ new_props = [p \in Procs |-> {}]
    /\ dirty = [p \in Procs |-> {}]
    /\ loc = [p \in Procs |-> NoLoc]
    /\ ret = [p \in Procs |-> "done"]
    /\ err = [p \in Procs |-> NoError]
    /\ cause = [p \in Procs |-> "none"]
    /\ made = [p \in Procs |-> [buckets |-> {}, properties |-> {}]]
    /\ calls = 0
    /\ last = NoCall
    /\ scopes = [p \in Procs |-> <<>>]
    /\ commits = [p \in Procs |-> 0]
    /\ rollbacks = [p \in Procs |-> 0]
    /\ stats = [p \in Procs |-> NoStats]

Init ==
    /\ buckets \in InitStores
    /\ properties = {}
    /\ bucket_seq = Cardinality(buckets) + 1
    /\ property_seq = 1
    /\ InitTasks

(***************************************************************************)
(* Exceptions and the except clauses they pass through                     *)
(***************************************************************************)
SQLAlchemyError == [type |-> "SQLAlchemyError", message |-> "store"]

DatabaseException(message) == [type |-> "DatabaseException", message |-> message]

AppException(message) == [type |-> "AppException", message |-> message]

\* BaseRepository methods: except SQLAlchemyError -> DatabaseException
repository_except(exc, message) ==
    IF exc.type = "SQLAlchemyError" THEN DatabaseException(message) ELSE exc

\* mutant: find_or_create_bucket without its except clauses
find_or_create_bucket_except_none(exc) == exc

find_or_create_bucket_except(exc) ==
    IF exc.type = "DatabaseException"
    THEN AppException("Failed to find or create geo bucket")
    ELSE AppException("An unexpected error occurred while trying find the geobucket.")

increment_property_count_except(exc) ==
    IF exc.type = "DatabaseException"
    THEN AppException("Failed to increment property count")
    ELSE AppException("An unexpected error occurred while incrementing the property count.")

create_property_except(exc) ==
    IF exc.type = "DatabaseException"
    THEN AppException("Failed to create property listing.")
    ELSE IF exc.type = "AppException"
         THEN exc
         ELSE AppException("An unexpected error occurred while creating the property listing.")

\* the two @transactional methods of PropertyService that create a listing
CreateOps == {"create_property", "create_property_if_not_exists"}

\* the exception the caller of the running call sees when exc is raised by
\* the store at position site
Propagate(p, site, exc) ==
    LET inner ==
            CASE site = "existing_find" ->
                     repository_except(exc, "Failed to find record")
              [] site \in {"foc_exact", "foc_fuzzy", "foc_create"} ->
                     find_or_create_bucket_except(repository_except(exc, "Failed to find record"))
              [] site = "prop_insert" ->
                     repository_except(exc, "Failed to create record")
              [] site = "inc_read" ->
                     increment_property_count_except(repository_except(exc, "Failed to find record"))
              [] site = "inc_write" ->
                     increment_property_count_except(exc)
              [] site = "save_commit" ->
                     CASE ret[p] = "inc_read" -> repository_except(exc, "Failed to create record")
                       [] op[p] = "increment_property_count" \/ ret[p] = "tx_exit" ->
                              increment_property_count_except(exc)
                       [] OTHER -> find_or_create_bucket_except(
                                       repository_except(exc, "Failed to create record"))
              [] OTHER -> exc
    IN  IF op[p] \in CreateOps /\ site # "tx_exit"
        THEN create_property_except(inner)
        ELSE inner

(***************************************************************************)
(* Sessions and transaction scopes                                         *)
(***************************************************************************)
\* mutant: save_changes never sees the open scope and commits every write
in_transaction_never(p) == FALSE

in_transaction(p) == level[p] > 0

\* mutant: the flushed update also renames the bucket after the listing
Patched_Renamed(p, b) ==
    IF \E d \in dirty[p] : d.id = b.id
    THEN [b EXCEPT !.property_count = (CHOOSE d \in dirty[p] : d.id = b.id).property_count,
                   !.canonical_name_normalized = loc[p].normalized_name]
    ELSE b

\* row b as session p sees it: its own flushed update on top of the
\* committed row
Patched(p, b) ==
    IF \E d \in dirty[p] : d.id = b.id
    THEN [b EXCEPT !.property_count = (CHOOSE d \in dirty[p] : d.id = b.id).property_count]
    ELSE b

\* READ COMMITTED: a statement of session p sees the committed rows and
\* the rows p itself has flushed
VisibleBuckets(p) == {Patched(p, b) : b \in buckets} \cup new_buckets[p]

\* session.commit()
Commit(p) ==
    /\ buckets' = VisibleBuckets(p)
    /\ properties' = properties \cup new_props[p]
    /\ new_buckets' = [new_buckets EXCEPT ![p] = {}]
    /\ new_props' = [new_props EXCEPT ![p] = {}]
    /\ dirty' = [dirty EXCEPT ![p] = {}]

\* session.rollback(), also what closing the session does to open work
Rollback(p) ==
    /\ new_buckets' = [new_buckets EXCEPT ![p] = {}]
    /\ new_props' = [new_props EXCEPT ![p] = {}]
    /\ dirty' = [dirty EXCEPT ![p] = {}]
    /\ UNCHANGED <<buckets, properties>>

\* mutant: save_changes flushes and never commits
AfterSave_FlushOnly(p, next) ==
    pc' = [pc EXCEPT ![p] = next] /\ UNCHANGED ret

\* BaseRepository.save_changes after a flush: inside a scope the flush is
\* all; outside, the session commits next
AfterSave(p, next) ==
    IF in_transaction(p)
    THEN pc' = [pc EXCEPT ![p] = next] /\ UNCHANGED ret
    ELSE pc' = [pc EXCEPT ![p] = "save_commit"] /\ ret' = [ret EXCEPT ![p] = next]

\* where the body of the running call continues once the bucket is resolved
AfterResolve(p) == IF op[p] \in CreateOps THEN "prop_insert" ELSE "done"

\* where it continues once the count is written
AfterIncrement(p) == IF op[p] \in CreateOps THEN "tx_exit" ELSE "done"

\* exc leaves the call: Transaction.__aexit__ rolls back in the outermost
\* scope and resets the level; without a scope the session is closed
Raise(p, site, exc, why) ==
    /\ pc' = [pc EXCEPT ![p] = "failed"]
    /\ err' = [err EXCEPT ![p] = Propagate(p, site, exc)]
    /\ cause' = [cause EXCEPT ![p] = why]
    /\ level' = [level EXCEPT ![p] = 0]
    /\ Rollback(p)
    /\ UNCHANGED <<op, args, loc, ret, calls, last>>

(***************************************************************************)
(* Calls                                                                   *)
(***************************************************************************)
\* the tasks are interchangeable: the next call is taken by the first idle one
CanCall(p) ==
    /\ pc[p] = "idle"
    /\ calls < MaxOps
    /\ \A q \in Procs : q < p => pc[q] # "idle"

\* the coordinates a request body may carry, out-of-range ones included
RequestLats == Lats \cup {-91, 91}

RequestLngs == Lngs \cup {-181, 181}

\* mutant: lat declared as a plain float
Latitude_float(lat) == TRUE

\* the field types of PropertyCreateRequest: Latitude is a float in
\* [-90, 90], Longitude a float in [-180, 180]
Latitude(lat) == -90 <= lat /\ lat <= 90

Longitude(lng) == -180 <= lng /\ lng <= 180

\* the validation error raised while the request body is built, naming the
\* field that failed
RequestValidationError(field) == [type |-> "RequestValidationError", message |-> field]

\* a request body that fails validation: the route function is not called,
\* create_property never runs
RejectCreateProperty(p) ==
    /\ UNCHANGED <<txvars, stats>>
    /\ CanCall(p)
    /\ \E title \in Titles, name \in RawNames, lat \in RequestLats, lng \in RequestLngs :
          /\ ~(Latitude(lat) /\ Longitude(lng))
          /\ args' = [args EXCEPT ![p] = [title |-> title, location_name |-> name,
                                          lat |-> lat, lng |-> lng]]
          /\ err' = [err EXCEPT ![p] =
                        RequestValidationError(IF ~Latitude(lat) THEN "lat" ELSE "lng")]
    /\ op' = [op EXCEPT ![p] = "create_property"]
    /\ pc' = [pc EXCEPT ![p] = "failed"]
    /\ cause' = [cause EXCEPT ![p] = "invalid_coordinate"]
    /\ calls' = calls + 1
    /\ UNCHANGED <<buckets, properties, bucket_seq, property_seq, level, new_buckets,
                   new_props, dirty, loc, ret, made, last>>

\* PropertyService.create_property, entered through @transactional with no
\* scope open: Transaction.__aenter__, then the pure steps of the body
CallCreateProperty(p) ==
    /\ UNCHANGED <<txvars, stats>>
    /\ CanCall(p)
    /\ \E title \in Titles, name \in RawNames, lat \in RequestLats, lng \in RequestLngs,
          seps \in SepOrders :
          /\ Latitude(lat)
          /\ Longitude(lng)
          /\ args' = [args EXCEPT ![p] = [title |-> title, location_name |-> name,
                                          lat |-> lat, lng |-> lng]]
          /\ loc' = [loc EXCEPT ![p] = [NoLoc EXCEPT !.h3 = calculate_h3_indexes(lat, lng),
                                                     !.normalized_name = normalize(name, seps)]]
    /\ op' = [op EXCEPT ![p] = "create_property"]
    /\ level' = [level EXCEPT ![p] = level[p] + 1]
    /\ pc' = [pc EXCEPT ![p] = "foc_exact"]
    /\ calls' = calls + 1
    /\ UNCHANGED <<buckets, properties, bucket_seq, property_seq, new_buckets, new_props,
                   dirty, ret, err, cause, made, last>>

\* GeoBucketService.find_or_create_bucket called on its own, no scope open
CallFindOrCreateBucket(p) ==
    /\ UNCHANGED <<txvars, stats>>
    /\ CanCall(p)
    /\ \E name \in RawNames, lat \in Lats, lng \in Lngs, seps \in SepOrders :
          /\ args' = [args EXCEPT ![p] = [h3_index_r8 |-> calculate_h3_indexes(lat, lng).h3_r8,
                                          location_name |-> name,
                                          normalized_name |-> normalize(name, seps),
                                          parent_h3 |-> calculate_h3_indexes(lat, lng).h3_r7]]
          /\ loc' = [loc EXCEPT ![p] = [NoLoc EXCEPT !.h3 = calculate_h3_indexes(lat, lng),
                                                     !.normalized_name = normalize(name, seps)]]
    /\ op' = [op EXCEPT ![p] = "find_or_create_bucket"]
    /\ pc' = [pc EXCEPT ![p] = "foc_exact"]
    /\ calls' = calls + 1
    /\ UNCHANGED <<buckets, properties, bucket_seq, property_seq, level, new_buckets,
                   new_props, dirty, ret, err, cause, made, last>>

\* GeoBucketService.increment_property_count called on its own
CallIncrementPropertyCount(p) ==
    /\ UNCHANGED <<txvars, stats>>
    /\ CanCall(p)
    /\ \E id \in 1..bucket_seq :
          /\ args' = [args EXCEPT ![p] = [geo_bucket_id |-> id]]
          /\ loc' = [loc EXCEPT ![p] = [NoLoc EXCEPT !.bucket = [id |-> id]]]
    /\ op' = [op EXCEPT ![p] = "increment_property_count"]
    /\ pc' = [pc EXCEPT ![p] = "inc_read"]
    /\ calls' = calls + 1
    /\ UNCHANGED <<buckets, properties, bucket_seq, property_seq, level, new_buckets,
                   new_props, dirty, ret, err, cause, made, last>>

(***************************************************************************)
(* find_or_create_bucket                                                   *)
(***************************************************************************)
\* mutant: the exact lookup filters on the parent cell and never matches
ExactMatches_ByParent(p) == {b \in VisibleBuckets(p) : b.parent_h3 = loc[p].h3.h3_r8}

\* find_one_by_and_none(h3_index=h3_index_r8)
ExactMatches(p) == {b \in VisibleBuckets(p) : b.h3_index = loc[p].h3.h3_r8}

\* similarity(a, b) >= num / den
similarity_ge(a, b, num, den) ==
    LET shared == Cardinality(Trigrams(a) \cap Trigrams(b))
        total  == Cardinality(Trigrams(a) \cup Trigrams(b))
    IN  total > 0 /\ shared * den >= num * total

\* mutant: the neighbour query compares with >= 0.7
FuzzyMatches_AtLeast(p) ==
    {b \in VisibleBuckets(p) :
        /\ b.h3_index \in get_neighbor_h3s(loc[p].h3.h3_r8, 1)
        /\ similarity_ge(b.canonical_name_normalized, loc[p].normalized_name, 7, 10)}

\* the rows of the neighbour query
FuzzyMatches(p) ==
    {b \in VisibleBuckets(p) :
        /\ b.h3_index \in get_neighbor_h3s(loc[p].h3.h3_r8, 1)
        /\ similarity_gt(b.canonical_name_normalized, loc[p].normalized_name, 7, 10)}

FocExact(p) ==
    /\ UNCHANGED <<txvars, stats>>
    /\ pc[p] = "foc_exact"
    /\ IF ExactMatches(p) # {}
       THEN /\ loc' = [loc EXCEPT ![p].bucket = CHOOSE b \in ExactMatches(p) : TRUE]
            /\ pc' = [pc EXCEPT ![p] = AfterResolve(p)]
       ELSE /\ pc' = [pc EXCEPT ![p] = "foc_fuzzy"]
            /\ UNCHANGED loc
    /\ UNCHANGED <<buckets, properties, bucket_seq, property_seq, op, args, level,
                   new_buckets, new_props, dirty, ret, err, cause, made, calls, last>>

\* .first() of a query without ORDER BY: any of the matching rows
FocFuzzy(p) ==
    /\ UNCHANGED <<txvars, stats>>
    /\ pc[p] = "foc_fuzzy"
    /\ IF FuzzyMatches(p) # {}
       THEN /\ \E b \in FuzzyMatches(p) : loc' = [loc EXCEPT ![p].bucket = b]
            /\ pc' = [pc EXCEPT ![p] = AfterResolve(p)]
       ELSE /\ pc' = [pc EXCEPT ![p] = "foc_create"]
            /\ UNCHANGED loc
    /\ UNCHANGED <<buckets, properties, bucket_seq, property_seq, op, args, level,
                   new_buckets, new_props, dirty, ret, err, cause, made, calls, last>>

\* mutant: the insert also waits on rows that are already committed
InsertWaits_Committed(p, h3_index) ==
    \/ \E q \in Procs \ {p} : \E b \in new_buckets[q] : b.h3_index = h3_index
    \/ \E b \in buckets : b.h3_index = h3_index

\* the unique index on h3_index: an insert of a key another session has
\* inserted and not yet committed waits for that session
InsertWaits(p, h3_index) ==
    \E q \in Procs \ {p} : \E b \in new_buckets[q] : b.h3_index = h3_index

\* mutant: geo_buckets.h3_index without its unique index
UniqueViolation_NoIndex(p, h3_index) == FALSE

UniqueViolation(p, h3_index) ==
    \E b \in VisibleBuckets(p) : b.h3_index = h3_index

\* geo_bucket_repository.create(schema): INSERT (flush), then save_changes
FocCreate(p) ==
    /\ UNCHANGED <<txvars, stats>>
    /\ pc[p] = "foc_create"
    /\ ~InsertWaits(p, loc[p].h3.h3_r8)
    /\ bucket_seq' = bucket_seq + 1
    /\ IF UniqueViolation(p, loc[p].h3.h3_r8)
       THEN /\ Raise(p, "foc_create", SQLAlchemyError, "unique_violation")
            /\ UNCHANGED <<made, property_seq>>
       ELSE LET bucket == NewBucket(bucket_seq, loc[p].h3.h3_r8, args[p].location_name,
                                    loc[p].normalized_name, loc[p].h3.h3_r7)
            IN  /\ new_buckets' = [new_buckets EXCEPT ![p] = @ \cup {bucket}]
                /\ loc' = [loc EXCEPT ![p].bucket = bucket]
                /\ made' = [made EXCEPT ![p].buckets = @ \cup {bucket.id}]
                /\ AfterSave(p, AfterResolve(p))
                /\ UNCHANGED <<buckets, properties, property_seq, op, args, level, new_props,
                               dirty, err, cause, calls, last>>

(***************************************************************************)
(* create_property: the listing insert                                     *)
(***************************************************************************)
\* mutant: the schema leaves geo_bucket_id out, the column keeps its default
NewProperty_NoBucket(id, payload, normalized_name, h3, geo_bucket_id) ==
    [id |-> id,
     title |-> payload.title,
     location_name |-> payload.location_name,
     location_name_normalized |-> normalized_name,
     coordinates |-> create_point_geometry(payload.lat, payload.lng),
     h3_index_r8 |-> h3.h3_r8,
     h3_index_r9 |-> h3.h3_r9,
     geo_bucket_id |-> 0]

\* Property(**schema) as built by create_property, with its new id
NewProperty(id, payload, normalized_name, h3, geo_bucket_id) ==
    [id |-> id,
     title |-> payload.title,
     location_name |-> payload.location_name,
     location_name_normalized |-> normalized_name,
     coordinates |-> create_point_geometry(payload.lat, payload.lng),
     h3_index_r8 |-> h3.h3_r8,
     h3_index_r9 |-> h3.h3_r9,
     geo_bucket_id |-> geo_bucket_id]

\* property_repository.create(schema): INSERT (flush), then save_changes
PropInsert(p) ==
    /\ UNCHANGED <<txvars, stats>>
    /\ pc[p] = "prop_insert"
    /\ LET property == NewProperty(property_seq, args[p], loc[p].normalized_name,
                                   loc[p].h3, loc[p].bucket.id)
       IN  /\ new_props' = [new_props EXCEPT ![p] = @ \cup {property}]
           /\ loc' = [loc EXCEPT ![p].property_id = property.id]
           /\ made' = [made EXCEPT ![p].properties = @ \cup {property.id}]
    /\ property_seq' = property_seq + 1
    /\ AfterSave(p, "inc_read")
    /\ UNCHANGED <<buckets, properties, bucket_seq, op, args, level, new_buckets, dirty,
                   err, cause, calls, last>>

(***************************************************************************)
(* increment_property_count                                                *)
(***************************************************************************)
\* find_one_by_and_none(id=geo_bucket_id); a missing bucket raises
\* AppException inside the try block
IncRead(p) ==
    /\ UNCHANGED <<txvars, stats>>
    /\ pc[p] = "inc_read"
    /\ LET found == {b \in VisibleBuckets(p) : b.id = loc[p].bucket.id}
       IN  IF found = {}
           THEN /\ Raise(p, "inc_read",
                         AppException("GeoBucket not found for incrementing property count."),
                         "not_found")
                /\ UNCHANGED <<bucket_seq, property_seq, made>>
           ELSE /\ loc' = [loc EXCEPT ![p].geo_bucket = CHOOSE b \in found : TRUE]
                /\ pc' = [pc EXCEPT ![p] = "inc_write"]
                /\ UNCHANGED <<buckets, properties, bucket_seq, property_seq, op, args, level,
                               new_buckets, new_props, dirty, ret, err, cause, made, calls, last>>

\* an UPDATE of a row another session has updated and not yet committed
\* waits for that session (row lock)
UpdateWaits(p, id) == \E q \in Procs \ {p} : \E d \in dirty[q] : d.id = id

\* geo_bucket.property_count += 1 on the loaded object; session.add;
\* save_changes flushes UPDATE ... SET property_count = <that value>
\* mutant: the count is set, not incremented
new_property_count_reset(geo_bucket) == 1

\* mutant: the loaded count is written back as it is
new_property_count_same(geo_bucket) == geo_bucket.property_count

new_property_count(geo_bucket) == geo_bucket.property_count + 1

IncWrite(p) ==
    /\ UNCHANGED <<txvars, stats>>
    /\ pc[p] = "inc_write"
    /\ ~UpdateWaits(p, loc[p].geo_bucket.id)
    /\ LET id == loc[p].geo_bucket.id
           n  == new_property_count(loc[p].geo_bucket)
       IN  IF \E b \in new_buckets[p] : b.id = id
           THEN /\ new_buckets' = [new_buckets EXCEPT ![p] =
                       {IF b.id = id THEN [b EXCEPT !.property_count = n] ELSE b : b \in @}]
                /\ UNCHANGED dirty
           ELSE /\ dirty' = [dirty EXCEPT ![p] =
                       {d \in @ : d.id # id} \cup {[id |-> id, property_count |-> n]}]
                /\ UNCHANGED new_buckets
    /\ AfterSave(p, AfterIncrement(p))
    /\ UNCHANGED <<buckets, properties, bucket_seq, property_seq, op, args, level, new_props,
                   loc, err, cause, made, calls, last>>

(***************************************************************************)
(* Commits                                                                 *)
(***************************************************************************)
\* save_changes with no scope open: session.commit()
SaveCommit(p) ==
    /\ UNCHANGED <<txvars, stats>>
    /\ pc[p] = "save_commit"
    /\ Commit(p)
    /\ pc' = [pc EXCEPT ![p] = ret[p]]
    /\ UNCHANGED <<bucket_seq, property_seq, op, args, level, loc, ret, err, cause, made,
                   calls, last>>

\* Transaction.__aexit__ without an exception: the outermost scope commits,
\* the level is reset
TxExit(p) ==
    /\ UNCHANGED <<txvars, stats>>
    /\ pc[p] = "tx_exit"
    /\ IF level[p] = 1 THEN Commit(p)
       ELSE UNCHANGED <<buckets, properties, new_buckets, new_props, dirty>>
    /\ level' = [level EXCEPT ![p] = level[p] - 1]
    /\ pc' = [pc EXCEPT ![p] = "done"]
    /\ UNCHANGED <<bucket_seq, property_seq, op, args, loc, ret, err, cause, made, calls, last>>

\* any statement sent to the store may fail
StoreSites == {"existing_find", "foc_exact", "foc_fuzzy", "foc_create", "prop_insert",
               "inc_read", "inc_write", "save_commit", "tx_exit"}

StoreFail(p) ==
    /\ UNCHANGED <<txvars, stats>>
    /\ pc[p] \in StoreSites
    /\ Raise(p, pc[p], SQLAlchemyError, "store_failure")
    /\ UNCHANGED <<bucket_seq, property_seq, made>>

\* an exception of the h3 library (a cell id it does not accept)
H3CellInvalidError == [type |-> "H3CellInvalidError", message |-> "h3"]

\* the h3 calls between the store statements of find_or_create_bucket:
\* get_neighbor_h3s before the neighbour query, h3_to_geometry before the
\* insert
LibrarySites == {"foc_fuzzy", "foc_create"}

LibraryFail(p) ==
    /\ UNCHANGED <<txvars, stats>>
    /\ pc[p] \in LibrarySites
    /\ Raise(p, pc[p], H3CellInvalidError, "library_failure")
    /\ UNCHANGED <<bucket_seq, property_seq, made>>

\* the call returns to its caller; the next call of the task runs in a new
\* session
Return(p) ==
    /\ UNCHANGED <<txvars, stats>>
    /\ pc[p] \in {"done", "failed"}
    /\ last' = IF \A q \in Procs \ {p} : pc[q] = "idle"
               THEN [op |-> op[p], args |-> args[p], ok |-> pc[p] = "done",
                     bucket_id |-> loc[p].bucket.id, buckets |-> buckets]
               ELSE NoCall
    /\ pc' = [pc EXCEPT ![p] = "idle"]
    /\ op' = [op EXCEPT ![p] = "none"]
    /\ args' = [args EXCEPT ![p] = NoArgs]
    /\ loc' = [loc EXCEPT ![p] = NoLoc]
    /\ ret' = [ret EXCEPT ![p] = "done"]
    /\ err' = [err EXCEPT ![p] = NoError]
    /\ cause' = [cause EXCEPT ![p] = "none"]
    /\ made' = [made EXCEPT ![p] = [buckets |-> {}, properties |-> {}]]
    /\ Rollback(p)
    /\ UNCHANGED <<bucket_seq, property_seq, level, calls>>

Next ==
    \E p \in Procs :
        \/ RejectCreateProperty(p)
        \/ CallCreateProperty(p)
        \/ CallFindOrCreateBucket(p)
        \/ CallIncrementPropertyCount(p)
        \/ FocExact(p)
        \/ FocFuzzy(p)
        \/ FocCreate(p)
        \/ PropInsert(p)
        \/ IncRead(p)
        \/ IncWrite(p)
        \/ SaveCommit(p)
        \/ TxExit(p)
        \/ StoreFail(p)
        \/ LibraryFail(p)
        \/ Return(p)

Spec == Init /\ [][Next]_vars

\* the calls made one after another: a call starts when no other is running
NextSeq == Next /\ \A p \in Procs : pc[p] # "idle" => \A q \in Procs \ {p} : pc[q] = "idle" /\ pc'[q] = "idle"

SeqSpec == Init /\ [][NextSeq]_vars

\* create_property calls only, one after another, on an empty store
InitEmpty == Init /\ buckets = {}

NextIngest == NextSeq /\ \A p \in Procs : op'[p] \in {"none", "create_property"}

IngestSpec == InitEmpty /\ [][NextIngest]_vars

\* create_property calls only, running concurrently
NextCreate == Next /\ \A p \in Procs : op'[p] \in {"none", "create_property"}

CreateSpec == Init /\ [][NextCreate]_vars

\* the steps of a running create_property: each is one await of the
\* coroutine, resumed by the event loop once the store has answered
CreateStep(p) ==
    \/ FocExact(p)
    \/ FocFuzzy(p)
    \/ FocCreate(p)
    \/ PropInsert(p)
    \/ IncRead(p)
    \/ IncWrite(p)
    \/ TxExit(p)

\* the requests of the fair runs
NearArgs(a) ==
    /\ "location_name" \in DOMAIN a => a.location_name = RawBadore
    /\ "lat" \in DOMAIN a => a.lat = 6
    /\ "lng" \in DOMAIN a => a.lng \in {1, 2}

\* listings of one name, in the same cell or in neighbouring cells
NextNear == NextCreate /\ \A p \in Procs : NearArgs(args'[p])

\* concurrent create_property calls under a fair event loop and a store that
\* eventually answers every statement
FairCreateSpec ==
    /\ Init
    /\ [][NextNear]_vars
    /\ \A p \in Procs : WF_vars(CreateStep(p))

TypeOK ==
    /\ \A p \in Procs : level[p] \in 0..MaxDepth
    /\ calls \in 0..MaxOps

(***************************************************************************)
(* Nested scopes: Transaction blocks and @transactional calls entered     *)
(* while another scope is open on the same session, with writes saved     *)
(* inside them.                                                            *)
(***************************************************************************)
\* mutant: every Transaction takes itself for the outermost one
is_outermost_always(lvl) == TRUE

\* Transaction.__aenter__: self.is_outermost = level == 0
is_outermost(lvl) == lvl = 0

\* a Transaction object after __aenter__; token restores the level it found
TransactionFrame(p) ==
    [kind |-> "Transaction", is_outermost |-> is_outermost(level[p]), token |-> level[p],
     inner_left |-> FALSE]

\* a @transactional call that found a scope open and runs inside it
JoinedFrame == [kind |-> "joined", is_outermost |-> FALSE, token |-> 0, inner_left |-> FALSE]

\* a scope may be entered by a new call or from the body of an open scope
TxStart(p) ==
    \/ CanCall(p)
    \/ pc[p] = "tx_body" /\ Len(scopes[p]) < MaxDepth

PushScope(p, frame, lvl) ==
    /\ scopes' = [scopes EXCEPT ![p] = Append(@, frame)]
    /\ level' = [level EXCEPT ![p] = lvl]
    /\ pc' = [pc EXCEPT ![p] = "tx_body"]
    /\ op' = [op EXCEPT ![p] = "scopes"]
    /\ calls' = IF pc[p] = "idle" THEN calls + 1 ELSE calls
    /\ UNCHANGED <<buckets, properties, bucket_seq, property_seq, args, new_buckets,
                   new_props, dirty, loc, ret, err, cause, made, last, commits, rollbacks, stats>>

\* async with Transaction(session): __aenter__
TxEnter(p) ==
    /\ TxStart(p)
    /\ PushScope(p, TransactionFrame(p), level[p] + 1)

\* a call of a @transactional function: the wrapper
TxCall(p) ==
    /\ TxStart(p)
    /\ IF in_transaction(p)
       THEN PushScope(p, JoinedFrame, level[p])
       ELSE PushScope(p, TransactionFrame(p), level[p] + 1)

\* repository.create inside the body: INSERT (flush), then save_changes,
\* which commits when it sees no scope
TxWrite(p) ==
    /\ pc[p] = "tx_body"
    /\ property_seq <= MaxOps
    /\ LET property == NewProperty(property_seq,
                                   [title |-> "t1", location_name |-> RawAjah, lat |-> 6, lng |-> 1],
                                   normalize(RawAjah, <<",">>), calculate_h3_indexes(6, 1), 0)
       IN  /\ made' = [made EXCEPT ![p].properties = @ \cup {property.id}]
           /\ IF in_transaction(p)
              THEN /\ new_props' = [new_props EXCEPT ![p] = @ \cup {property}]
                   /\ UNCHANGED <<properties, commits>>
              ELSE /\ properties' = properties \cup new_props[p] \cup {property}
                   /\ new_props' = [new_props EXCEPT ![p] = {}]
                   /\ commits' = [commits EXCEPT ![p] = @ + 1]
    /\ property_seq' = property_seq + 1
    /\ UNCHANGED <<buckets, bucket_seq, pc, op, args, level, new_buckets, dirty, loc, ret,
                   err, cause, calls, last, scopes, rollbacks, stats>>

\* the innermost open scope
TopScope(p) == scopes[p][Len(scopes[p])]

\* mutant: __aexit__ without its finally clause, the level is not reset
PopScope_NoReset(p, to_body, to_end) ==
    /\ LET n    == Len(scopes[p])
           rest == SubSeq(scopes[p], 1, n - 1)
       IN  scopes' = [scopes EXCEPT ![p] =
                         IF n > 1 THEN [rest EXCEPT ![n - 1].inner_left = TRUE] ELSE rest]
    /\ level' = level
    /\ pc' = [pc EXCEPT ![p] = IF Len(scopes[p]) = 1 THEN to_end ELSE to_body]

\* the finally clause of __aexit__ resets the level; the scope is left
\* (inner_left notes, in the scope around it, that an inner scope was left)
PopScope(p, to_body, to_end) ==
    /\ LET n    == Len(scopes[p])
           rest == SubSeq(scopes[p], 1, n - 1)
       IN  scopes' = [scopes EXCEPT ![p] =
                         IF n > 1 THEN [rest EXCEPT ![n - 1].inner_left = TRUE] ELSE rest]
    /\ level' = [level EXCEPT ![p] = IF TopScope(p).kind = "Transaction"
                                     THEN TopScope(p).token ELSE @]
    /\ pc' = [pc EXCEPT ![p] = IF Len(scopes[p]) = 1 THEN to_end ELSE to_body]

\* the body of the innermost scope ends without an exception:
\* __aexit__(None, None, None) commits in the outermost Transaction
TxLeave(p) ==
    /\ pc[p] = "tx_body"
    /\ IF TopScope(p).kind = "Transaction" /\ TopScope(p).is_outermost
       THEN /\ Commit(p)
            /\ commits' = [commits EXCEPT ![p] = @ + 1]
       ELSE UNCHANGED <<buckets, properties, new_buckets, new_props, dirty, commits>>
    /\ PopScope(p, "tx_body", "tx_done")
    /\ UNCHANGED <<bucket_seq, property_seq, op, args, loc, ret, err, cause, made, calls,
                   last, rollbacks, stats>>

\* the commit of __aexit__ raises: the exception leaves __aexit__ after the
\* finally clause, no rollback is called
TxCommitFail(p) ==
    /\ pc[p] = "tx_body"
    /\ TopScope(p).kind = "Transaction"
    /\ TopScope(p).is_outermost
    /\ commits' = [commits EXCEPT ![p] = @ + 1]
    /\ cause' = [cause EXCEPT ![p] = "commit_failure"]
    /\ PopScope(p, "tx_raising", "tx_failed")
    /\ UNCHANGED <<buckets, properties, bucket_seq, property_seq, op, args, new_buckets,
                   new_props, dirty, loc, ret, err, made, calls, last, rollbacks, stats>>

\* the body of the innermost scope raises
TxRaise(p) ==
    /\ pc[p] = "tx_body"
    /\ pc' = [pc EXCEPT ![p] = "tx_raising"]
    /\ cause' = [cause EXCEPT ![p] = "body_exception"]
    /\ UNCHANGED <<buckets, properties, bucket_seq, property_seq, op, args, level,
                   new_buckets, new_props, dirty, loc, ret, err, made, calls, last, txvars, stats>>

\* the exception leaves the innermost scope: __aexit__(exc_type, ...) rolls
\* back in the outermost Transaction and returns False
TxUnwind(p) ==
    /\ pc[p] = "tx_raising"
    /\ IF TopScope(p).kind = "Transaction" /\ TopScope(p).is_outermost
       THEN /\ Rollback(p)
            /\ rollbacks' = [rollbacks EXCEPT ![p] = @ + 1]
       ELSE UNCHANGED <<buckets, properties, new_buckets, new_props, dirty, rollbacks>>
    /\ PopScope(p, "tx_raising", "tx_failed")
    /\ UNCHANGED <<bucket_seq, property_seq, op, args, loc, ret, err, cause, made, calls,
                   last, commits, stats>>

\* the rollback of __aexit__ raises: its exception leaves __aexit__ in place
\* of the body's, after the finally clause; the open work stays in the
\* session until it is closed
TxRollbackFail(p) ==
    /\ pc[p] = "tx_raising"
    /\ TopScope(p).kind = "Transaction"
    /\ TopScope(p).is_outermost
    /\ rollbacks' = [rollbacks EXCEPT ![p] = @ + 1]
    /\ cause' = [cause EXCEPT ![p] = "rollback_failure"]
    /\ PopScope(p, "tx_raising", "tx_failed")
    /\ UNCHANGED <<buckets, properties, bucket_seq, property_seq, op, args, new_buckets,
                   new_props, dirty, loc, ret, err, made, calls, last, commits, stats>>

\* the outcome reaches the caller, the session is closed
TxReturn(p) ==
    /\ pc[p] \in {"tx_done", "tx_failed"}
    /\ pc' = [pc EXCEPT ![p] = "idle"]
    /\ op' = [op EXCEPT ![p] = "none"]
    /\ cause' = [cause EXCEPT ![p] = "none"]
    /\ made' = [made EXCEPT ![p] = [buckets |-> {}, properties |-> {}]]
    /\ commits' = [commits EXCEPT ![p] = 0]
    /\ rollbacks' = [rollbacks EXCEPT ![p] = 0]
    /\ Rollback(p)
    /\ UNCHANGED <<bucket_seq, property_seq, args, level, loc, ret, err, calls, last, scopes, stats>>

NextTx ==
    \E p \in Procs :
        \/ TxEnter(p)
        \/ TxCall(p)
        \/ TxWrite(p)
        \/ TxLeave(p)
        \/ TxCommitFail(p)
        \/ TxRaise(p)
        \/ TxUnwind(p)
        \/ TxRollbackFail(p)
        \/ TxReturn(p)

TxSpec == InitEmpty /\ [][NextTx]_vars

(***************************************************************************)
(* get_stats: the statistics of the bucket population                      *)
(***************************************************************************)
\* the most buckets a population holds
MaxBuckets == 12

\* limit of _get_top_buckets as get_stats calls it
TopLimit == 10

\* h3.cell_to_latlng: the centre of a cell of the line grid
cell_to_latlng(h3_index) == [lat |-> 6, lng |-> h3_index - 800]

\* ST_Y and ST_X of a center point
center_lat(b) == cell_to_latlng(b.center_point[2]).lat

center_lng(b) == cell_to_latlng(b.center_point[2]).lng

\* the count of bucket i: all counts equal to b when a = 0, otherwise one
\* empty bucket among counts from 1 to 3
StatsCount(i, a, b) ==
    IF a = 0 THEN b
    ELSE IF i % MaxBuckets = b THEN 0 ELSE 1 + ((a * i) % 3)

\* a populated store: n buckets in a row of cells starting at 1 - shift,
\* with alternating names, and as many listings per bucket as its count
StatsBucket(i, shift, a, b) ==
    LET name == IF i % 2 = 0 THEN RawBadore ELSE RawAjah
    IN  [NewBucket(i, latlng_to_cell(6, i - shift, 8), name, normalize(name, <<",">>),
                   latlng_to_cell(6, i - shift, 7))
            EXCEPT !.property_count = StatsCount(i, a, b)]

StatsListings(pop) ==
    UNION { { NewProperty(3 * bk.id + j,
                          [title |-> "t1", location_name |-> bk.canonical_name,
                           lat |-> 6, lng |-> bk.h3_index - 800],
                          bk.canonical_name_normalized,
                          calculate_h3_indexes(6, bk.h3_index - 800), bk.id)
              : j \in 1..bk.property_count }
            : bk \in pop }

InitStats ==
    /\ \E n \in 0..MaxBuckets : \E shift \in {0, 1, n} : \E a \in 0..2, b \in 0..2 :
          buckets = {StatsBucket(i, shift, a, b) : i \in 1..n}
    /\ properties = StatsListings(buckets)
    /\ bucket_seq = Cardinality(buckets) + 1
    /\ property_seq = 3 * Cardinality(buckets) + 4
    /\ InitTasks

\* a nullable number of a result row
Null == [null |-> TRUE, v |-> 0]

Value(n) == [null |-> FALSE, v |-> n]

\* the truth value Python gives a nullable number
Truthy(x) == ~x.null /\ x.v # 0

\* the orders in which the store may return rows with equal sort keys
TieOrders == {"id_asc", "id_desc"}

\* _get_total_properties
get_total_properties == Cardinality(properties)

\* _get_basic_stats
get_basic_stats ==
    [total_buckets |-> Cardinality(buckets),
     empty_buckets |-> Cardinality({b \in buckets : b.property_count = 0})]

\* ORDER BY property_count DESC, rows of equal count in the store's order
RowBefore(b, c, ties) ==
    \/ b.property_count > c.property_count
    \/ /\ b.property_count = c.property_count
       /\ IF ties = "id_asc" THEN b.id <= c.id ELSE b.id >= c.id

RECURSIVE OrderByCountDesc(_, _)
OrderByCountDesc(rows, ties) ==
    IF rows = {} THEN <<>>
    ELSE LET first == CHOOSE b \in rows : \A c \in rows : RowBefore(b, c, ties)
         IN  <<first>> \o OrderByCountDesc(rows \ {first}, ties)

\* mutant: the query without its WHERE clause
TopCandidates_all == buckets

\* WHERE property_count > 0
TopCandidates == {b \in buckets : b.property_count > 0}

GeoBucketDistribution(b) ==
    [bucket_id |-> b.id,
     h3_index |-> b.h3_index,
     canonical_name |-> b.canonical_name,
     property_count |-> b.property_count,
     center_lat |-> center_lat(b),
     center_lng |-> center_lng(b)]

\* _get_top_buckets
get_top_buckets(limit, ties) ==
    LET rows  == OrderByCountDesc(TopCandidates, ties)
        first == SubSeq(rows, 1, IF Len(rows) < limit THEN Len(rows) ELSE limit)
    IN  [i \in DOMAIN first |-> GeoBucketDistribution(first[i])]

SetMin(S) == CHOOSE x \in S : \A y \in S : x <= y

SetMax(S) == CHOOSE x \in S : \A y \in S : x >= y

\* the row of the ST_Extent query: four NULLs when there is no center point
bbox_row ==
    LET lats == {center_lat(b) : b \in buckets}
        lngs == {center_lng(b) : b \in buckets}
    IN  IF buckets = {}
        THEN [min_lng |-> Null, max_lng |-> Null, min_lat |-> Null, max_lat |-> Null]
        ELSE [min_lng |-> Value(SetMin(lngs)), max_lng |-> Value(SetMax(lngs)),
              min_lat |-> Value(SetMin(lats)), max_lat |-> Value(SetMax(lats))]

\* _calculate_bbox_area: the area of the envelope
calculate_bbox_area(min_lat, max_lat, min_lng, max_lng) ==
    (max_lng - min_lng) * (max_lat - min_lat)

\* mutant: the density is computed whatever the area
avg_bucket_density_unguarded(total_properties, total_area_km2) ==
    <<total_properties, total_area_km2.v>>

\* avg_density: total_properties / total_area_km2 as a fraction, or 0
avg_bucket_density(total_properties, total_area_km2) ==
    IF Truthy(total_area_km2) /\ total_area_km2.v > 0
    THEN <<total_properties, total_area_km2.v>>
    ELSE <<0, 1>>

\* _get_coverage_stats
get_coverage_stats(total_properties) ==
    LET bbox  == bbox_row
        found == /\ Truthy(bbox.min_lat)
                 /\ Truthy(bbox.max_lat)
                 /\ Truthy(bbox.min_lng)
                 /\ Truthy(bbox.max_lng)
        area  == IF found
                 THEN Value(calculate_bbox_area(bbox.min_lat.v, bbox.max_lat.v,
                                                bbox.min_lng.v, bbox.max_lng.v))
                 ELSE Null
    IN  [total_area_km2 |-> area,
         bounding_box |-> IF found
                          THEN [null |-> FALSE,
                                min_lat |-> bbox.min_lat.v, max_lat |-> bbox.max_lat.v,
                                min_lng |-> bbox.min_lng.v, max_lng |-> bbox.max_lng.v]
                          ELSE [null |-> TRUE, min_lat |-> 0, max_lat |-> 0,
                                min_lng |-> 0, max_lng |-> 0],
         unique_locations |-> Cardinality({b.canonical_name_normalized : b \in buckets}),
         avg_bucket_density |-> avg_bucket_density(total_properties, area)]

\* _get_resolution_stats: one row per h3_resolution
get_resolution_stats ==
    { [resolution |-> r,
       bucket_count |-> Cardinality({b \in buckets : b.h3_resolution = r}),
       max_properties_in_bucket |->
           SetMax({b.property_count : b \in {c \in buckets : c.h3_resolution = r}}),
       min_properties_in_bucket |->
           SetMin({b.property_count : b \in {c \in buckets : c.h3_resolution = r}})]
      : r \in {b.h3_resolution : b \in buckets} }

GeoBucketStats(ties) ==
    [total_buckets |-> get_basic_stats.total_buckets,
     total_properties |-> get_total_properties,
     top_buckets |-> get_top_buckets(TopLimit, ties),
     empty_buckets |-> get_basic_stats.empty_buckets,
     coverage |-> get_coverage_stats(get_total_properties),
     resolution_stats |-> get_resolution_stats]

\* GeoBucketService.get_stats, the store answering every query
GetStats(p) ==
    /\ CanCall(p)
    /\ \E ties \in TieOrders : stats' = [stats EXCEPT ![p] = GeoBucketStats(ties)]
    /\ op' = [op EXCEPT ![p] = "get_stats"]
    /\ pc' = [pc EXCEPT ![p] = "done"]
    /\ calls' = calls + 1
    /\ UNCHANGED <<buckets, properties, bucket_seq, property_seq, args, level, new_buckets,
                   new_props, dirty, loc, ret, err, cause, made, last, txvars>>

get_stats_except(exc) ==
    IF exc.type = "DatabaseException"
    THEN AppException("Failed to retrieve geo bucket stats")
    ELSE AppException("An unexpected error occurred while retrieving geo bucket statistics.")

\* get_stats with a query failed by the store, sent through the repository
\* (execute_raw) or through the session itself (_get_total_properties)
GetStatsFail(p) ==
    /\ CanCall(p)
    /\ op' = [op EXCEPT ![p] = "get_stats"]
    /\ pc' = [pc EXCEPT ![p] = "failed"]
    /\ \E exc \in {SQLAlchemyError, repository_except(SQLAlchemyError, "Failed to execute raw query")} :
          err' = [err EXCEPT ![p] = get_stats_except(exc)]
    /\ cause' = [cause EXCEPT ![p] = "store_failure"]
    /\ calls' = calls + 1
    /\ UNCHANGED <<buckets, properties, bucket_seq, property_seq, args, level, new_buckets,
                   new_props, dirty, loc, ret, made, last, txvars, stats>>

NextStats ==
    \E p \in Procs :
        \/ GetStats(p)
        \/ GetStatsFail(p)
        \/ Return(p)

StatsSpec == InitStats /\ [][NextStats]_vars

(***************************************************************************)
(* LocationUtils.normalize and LocationUtils.similarity applied to raw     *)
(* names                                                                   *)
(***************************************************************************)
\* the words and the joiners the raw names are made of
NameWords == {RawAjah, RawBadore, <<"E", "s", "t", "a", "t", "e">>, <<"1", "2">>}

NameJoiners == {<<" ">>, <<",", " ">>, <<"-">>}

\* raw names of one, two and three words
RawNames2 == {w1 \o j \o w2 : w1 \in NameWords, j \in NameJoiners, w2 \in NameWords}

RawNames3 == {n \o j \o w : n \in RawNames2, j \in NameJoiners, w \in NameWords}

NormalizeInputs == NameWords \cup RawNames2 \cup RawNames3

SimilarityInputs == NameWords \cup RawNames2

\* the length of the common run of a from i and b from j
RECURSIVE run_length(_, _, _, _)
run_length(a, b, i, j) ==
    IF i > Len(a) \/ j > Len(b) THEN 0
    ELSE IF a[i] # b[j] THEN 0 ELSE 1 + run_length(a, b, i + 1, j + 1)

\* difflib.SequenceMatcher.find_longest_match without junk: the longest
\* common block, the earliest in a, then the earliest in b
find_longest_match(a, b) ==
    LET runs == [c \in (1..Len(a)) \X (1..Len(b)) |-> run_length(a, b, c[1], c[2])]
        best == SetMax({runs[c] : c \in DOMAIN runs} \cup {0})
        i    == SetMin({c[1] : c \in {d \in DOMAIN runs : runs[d] = best}})
        j    == SetMin({c[2] : c \in {d \in DOMAIN runs : runs[d] = best /\ d[1] = i}})
    IN  IF best = 0 THEN <<0, 0, 0>> ELSE <<i, j, best>>

\* the total size of get_matching_blocks: the longest block, then the same
\* to its left and to its right
RECURSIVE matching_size(_, _)
matching_size(a, b) ==
    LET m == find_longest_match(a, b)
    IN  IF m[3] = 0 THEN 0
        ELSE m[3] + matching_size(SubSeq(a, 1, m[1] - 1), SubSeq(b, 1, m[2] - 1))
                  + matching_size(SubSeq(a, m[1] + m[3], Len(a)), SubSeq(b, m[2] + m[3], Len(b)))

\* mutant: the matches are counted once
ratio_half(a, b) == <<matching_size(a, b), Len(a) + Len(b)>>

\* SequenceMatcher(None, a, b).ratio() as a fraction: 2.0 * M / T
ratio(a, b) == <<2 * matching_size(a, b), Len(a) + Len(b)>>

\* max of two fractions
FractionMax(x, y) == IF x[1] * y[2] >= y[1] * x[2] THEN x ELSE y

\* norm1 in norm2
IsSubstring(x, y) ==
    \E i \in 1..(Len(y) - Len(x) + 1) : SubSeq(y, i, i + Len(x) - 1) = x

\* set(norm.split())
Tokens(s) == {t \in Range(split(s, " ")) : t # <<>>}

\* LocationUtils.similarity, its score as a fraction
similarity(loc1, loc2, seps) ==
    LET norm1 == normalize(loc1, seps)
        norm2 == normalize(loc2, seps)
    IN  IF norm1 = <<>> \/ norm2 = <<>> THEN <<0, 1>>
        ELSE LET base    == ratio(norm1, norm2)
                 raised  == IF IsSubstring(norm1, norm2) \/ IsSubstring(norm2, norm1)
                            THEN FractionMax(base, <<9, 10>>) ELSE base
                 tokens1 == Tokens(norm1)
                 tokens2 == Tokens(norm2)
                 fewer   == IF Cardinality(tokens1) < Cardinality(tokens2)
                            THEN Cardinality(tokens1) ELSE Cardinality(tokens2)
             IN  IF tokens1 # {} /\ tokens2 # {}
                 THEN FractionMax(raised, <<95 * Cardinality(tokens1 \cap tokens2), 100 * fewer>>)
                 ELSE raised

\* a call of normalize
CallNormalize(p) ==
    /\ CanCall(p)
    /\ \E location \in NormalizeInputs, seps \in SepOrders :
          /\ args' = [args EXCEPT ![p] = [location |-> location, seps |-> seps]]
          /\ loc' = [loc EXCEPT ![p] = [NoLoc EXCEPT !.normalized_name = normalize(location, seps)]]
    /\ op' = [op EXCEPT ![p] = "normalize"]
    /\ pc' = [pc EXCEPT ![p] = "done"]
    /\ calls' = calls + 1
    /\ UNCHANGED <<buckets, properties, bucket_seq, property_seq, level, new_buckets,
                   new_props, dirty, ret, err, cause, made, last, txvars, stats>>

\* a call of similarity, on a name and itself or on a name and a word
CallSimilarity(p) ==
    /\ CanCall(p)
    /\ \E loc1 \in SimilarityInputs, seps \in SepOrders : \E loc2 \in {loc1} \cup NameWords :
          /\ args' = [args EXCEPT ![p] = [loc1 |-> loc1, loc2 |-> loc2, seps |-> seps]]
          /\ loc' = [loc EXCEPT ![p] =
                        [h3 |-> NoLoc.h3, normalized_name |-> normalize(loc1, seps),
                         bucket |-> NoBucket, geo_bucket |-> NoBucket, property_id |-> 0,
                         base_similarity |-> similarity(loc1, loc2, seps)]]
    /\ op' = [op EXCEPT ![p] = "similarity"]
    /\ pc' = [pc EXCEPT ![p] = "done"]
    /\ calls' = calls + 1
    /\ UNCHANGED <<buckets, properties, bucket_seq, property_seq, level, new_buckets,
                   new_props, dirty, ret, err, cause, made, last, txvars, stats>>

\* the value reaches the caller
ReturnValue(p) ==
    /\ pc[p] = "done"
    /\ op[p] \in {"normalize", "similarity"}
    /\ pc' = [pc EXCEPT ![p] = "idle"]
    /\ op' = [op EXCEPT ![p] = "none"]
    /\ args' = [args EXCEPT ![p] = NoArgs]
    /\ loc' = [loc EXCEPT ![p] = NoLoc]
    /\ UNCHANGED <<buckets, properties, bucket_seq, property_seq, level, new_buckets,
                   new_props, dirty, ret, err, cause, made, calls, last, txvars, stats>>

\* the calls are made one at a time
NextNames ==
    \E p \in Procs :
        /\ \A q \in Procs \ {p} : pc[q] = "idle"
        /\ \/ CallNormalize(p)
           \/ CallSimilarity(p)
           \/ ReturnValue(p)

NamesSpec == InitEmpty /\ [][NextNames]_vars

(***************************************************************************)
(* The whole service: create_property_if_not_exists, get_fuzzy_buckets and *)
(* get_stats beside the calls above, on stores that may hold listings.     *)
(***************************************************************************)
\* a listing left in bucket 1 by an earlier create_property call; the title
\* of a listing is not unique
SeedProperty(id) ==
    NewProperty(id, [title |-> "t1", location_name |-> RawBadore, lat |-> 6, lng |-> 1],
                normalize(RawBadore, <<",">>), calculate_h3_indexes(6, 1), 1)

\* the store after k such calls
ListedStore(k) == {[SeedBucket(1, 1) EXCEPT !.property_count = k]}

InitService ==
    /\ \E k \in 0..2 :
          /\ buckets \in (IF k = 0 THEN InitStores ELSE {ListedStore(k)})
          /\ properties = {SeedProperty(id) : id \in 1..k}
    /\ bucket_seq = Cardinality(buckets) + 1
    /\ property_seq = Cardinality(properties) + 1
    /\ InitTasks

\* the listings a statement of session p sees
VisibleProperties(p) == properties \cup new_props[p]

\* Result.one_or_none() on more than one row: MultipleResultsFound, an
\* SQLAlchemyError
MultipleResultsFound == [type |-> "SQLAlchemyError", message |-> "multiple rows"]

\* PropertyService.create_property_if_not_exists, entered through
\* @transactional with no scope open
CallCreatePropertyIfNotExists(p) ==
    /\ UNCHANGED <<txvars, stats>>
    /\ CanCall(p)
    /\ \E title \in Titles, name \in RawNames, lat \in Lats, lng \in Lngs :
          args' = [args EXCEPT ![p] = [title |-> title, location_name |-> name,
                                       lat |-> lat, lng |-> lng]]
    /\ op' = [op EXCEPT ![p] = "create_property_if_not_exists"]
    /\ level' = [level EXCEPT ![p] = level[p] + 1]
    /\ pc' = [pc EXCEPT ![p] = "existing_find"]
    /\ calls' = calls + 1
    /\ UNCHANGED <<buckets, properties, bucket_seq, property_seq, new_buckets, new_props,
                   dirty, loc, ret, err, cause, made, last>>

\* find_one_by_and_none(title=payload.title): the rows of the query
ExistingMatches(p) == {x \in VisibleProperties(p) : x.title = args[p].title}

\* the lookup and what follows it: the listing found is returned and the
\* scope is left; with none found the pure steps of the body run and the
\* bucket is resolved next
ExistingFind(p) ==
    /\ UNCHANGED <<txvars, stats>>
    /\ pc[p] = "existing_find"
    /\ IF Cardinality(ExistingMatches(p)) > 1
       THEN /\ Raise(p, "existing_find", MultipleResultsFound, "multiple_results")
            /\ UNCHANGED <<bucket_seq, property_seq, made>>
       ELSE /\ IF ExistingMatches(p) # {}
               THEN /\ loc' = [loc EXCEPT ![p].property_id =
                                  (CHOOSE x \in ExistingMatches(p) : TRUE).id]
                    /\ pc' = [pc EXCEPT ![p] = "tx_exit"]
               ELSE /\ \E seps \in SepOrders :
                          loc' = [loc EXCEPT ![p] =
                                     [NoLoc EXCEPT !.h3 = calculate_h3_indexes(args[p].lat, args[p].lng),
                                                   !.normalized_name =
                                                       normalize(args[p].location_name, seps)]]
                    /\ pc' = [pc EXCEPT ![p] = "foc_exact"]
            /\ UNCHANGED <<buckets, properties, bucket_seq, property_seq, op, args, level,
                           new_buckets, new_props, dirty, ret, err, cause, made, calls, last>>

\* the limits get_fuzzy_buckets is called with
FuzzyLimits == {1, 10}

\* similarity(a, b) of the store as a fraction: shared trigrams over all trigrams
trgm_similarity(a, b) ==
    LET ta == Trigrams(a)
        tb == Trigrams(b)
    IN  <<Cardinality(ta \cap tb), Cardinality(ta \cup tb)>>

\* the rows session p sees, each with its similarity to the name asked for
ScoredBuckets(p, normalized_location) ==
    {<<b, trgm_similarity(b.canonical_name_normalized, normalized_location)>> :
        b \in VisibleBuckets(p)}

\* WHERE similarity(canonical_name_normalized, normalized_location) > 0.3
FuzzyCandidates(scored) == {r \in scored : r[2][2] > 0 /\ r[2][1] * 10 > 3 * r[2][2]}

\* ORDER BY similarity(...) DESC, rows of equal similarity in the store's order
ScoredBefore(r, c, ties) ==
    \/ r[2][1] * c[2][2] > c[2][1] * r[2][2]
    \/ /\ r[2][1] * c[2][2] = c[2][1] * r[2][2]
       /\ IF ties = "id_asc" THEN r[1].id <= c[1].id ELSE r[1].id >= c[1].id

RECURSIVE OrderBySimilarityDesc(_, _)
OrderBySimilarityDesc(scored, ties) ==
    IF scored = {} THEN <<>>
    ELSE LET first == CHOOSE r \in scored : \A c \in scored : ScoredBefore(r, c, ties)
         IN  <<first[1]>> \o OrderBySimilarityDesc(scored \ {first}, ties)

\* the normalized names list_properties asks for
FuzzyQueries == {normalize(name, seps) : name \in RawNames, seps \in SepOrders}

\* GeoBucketService.get_fuzzy_buckets, the store answering the query
GetFuzzyBuckets(p) ==
    /\ CanCall(p)
    /\ \E normalized_location \in FuzzyQueries :
          LET matching == FuzzyCandidates(ScoredBuckets(p, normalized_location))
          IN  \E limit \in FuzzyLimits, ties \in TieOrders :
                 LET rows == OrderBySimilarityDesc(matching, ties)
                 IN  /\ args' = [args EXCEPT ![p] = [normalized_location |-> normalized_location,
                                                     limit |-> limit]]
                     /\ loc' = [loc EXCEPT ![p] =
                                   [h3 |-> NoLoc.h3, normalized_name |-> normalized_location,
                                    bucket |-> NoBucket, geo_bucket |-> NoBucket, property_id |-> 0,
                                    fuzzy_buckets |->
                                        SubSeq(rows, 1, IF Len(rows) < limit THEN Len(rows) ELSE limit)]]
    /\ op' = [op EXCEPT ![p] = "get_fuzzy_buckets"]
    /\ pc' = [pc EXCEPT ![p] = "done"]
    /\ calls' = calls + 1
    /\ UNCHANGED <<buckets, properties, bucket_seq, property_seq, level, new_buckets,
                   new_props, dirty, ret, err, cause, made, last, txvars, stats>>

get_fuzzy_buckets_except(exc) ==
    IF exc.type = "DatabaseException"
    THEN AppException("Failed to retrieve fuzzy buckets")
    ELSE AppException("An unexpected error occurred while retrieving fuzzy geo buckets.")

\* get_fuzzy_buckets with its query failed by the store
GetFuzzyBucketsFail(p) ==
    /\ CanCall(p)
    /\ op' = [op EXCEPT ![p] = "get_fuzzy_buckets"]
    /\ pc' = [pc EXCEPT ![p] = "failed"]
    /\ err' = [err EXCEPT ![p] = get_fuzzy_buckets_except(
                                     repository_except(SQLAlchemyError, "Failed to execute raw query"))]
    /\ cause' = [cause EXCEPT ![p] = "store_failure"]
    /\ calls' = calls + 1
    /\ UNCHANGED <<buckets, properties, bucket_seq, property_seq, args, level, new_buckets,
                   new_props, dirty, loc, ret, made, last, txvars, stats>>

\* the requests of these runs: two names, and coordinates in the cell of
\* bucket 1 or in the cell between the buckets
ServiceArgs(a) ==
    /\ "location_name" \in DOMAIN a => a.location_name \in {RawBadore, RawAjah}
    /\ "lng" \in DOMAIN a => a.lng # 3
    /\ "h3_index_r8" \in DOMAIN a => a.h3_index_r8 # latlng_to_cell(6, 3, 8)

NextService ==
    /\ \/ Next
       \/ \E p \in Procs :
             \/ CallCreatePropertyIfNotExists(p)
             \/ ExistingFind(p)
             \/ GetFuzzyBuckets(p)
             \/ GetFuzzyBucketsFail(p)
             \/ GetStats(p)
             \/ GetStatsFail(p)
    /\ \A p \in Procs : ServiceArgs(args'[p])

ServiceSpec == InitService /\ [][NextService]_vars

(***************************************************************************)
(* The counter under three callers: increment_property_count calls on the  *)
(* stored buckets and create_property calls of one listing, the store      *)
(* answering every statement.                                              *)
(***************************************************************************)
\* the number of calls made in one of these behaviours
MaxCounterOps == 3

CounterCanCall(p) ==
    /\ pc[p] = "idle"
    /\ calls < MaxCounterOps
    /\ \A q \in Procs : q < p => pc[q] # "idle"

\* GeoBucketService.increment_property_count called on its own, on a stored
\* bucket
CounterIncrement(p) ==
    /\ UNCHANGED <<txvars, stats>>
    /\ CounterCanCall(p)
    /\ \E b \in buckets :
          /\ args' = [args EXCEPT ![p] = [geo_bucket_id |-> b.id]]
          /\ loc' = [loc EXCEPT ![p] = [NoLoc EXCEPT !.bucket = [id |-> b.id]]]
    /\ op' = [op EXCEPT ![p] = "increment_property_count"]
    /\ pc' = [pc EXCEPT ![p] = "inc_read"]
    /\ calls' = calls + 1
    /\ UNCHANGED <<buckets, properties, bucket_seq, property_seq, level, new_buckets,
                   new_props, dirty, ret, err, cause, made, last>>

\* PropertyService.create_property of a listing named Badore in cell 801
CounterCreate(p) ==
    /\ UNCHANGED <<txvars, stats>>
    /\ CounterCanCall(p)
    /\ \E seps \in SepOrders :
          /\ args' = [args EXCEPT ![p] = [title |-> "t1", location_name |-> RawBadore,
                                          lat |-> 6, lng |-> 1]]
          /\ loc' = [loc EXCEPT ![p] = [NoLoc EXCEPT !.h3 = calculate_h3_indexes(6, 1),
                                                     !.normalized_name = normalize(RawBadore, seps)]]
    /\ op' = [op EXCEPT ![p] = "create_property"]
    /\ level' = [level EXCEPT ![p] = level[p] + 1]
    /\ pc' = [pc EXCEPT ![p] = "foc_exact"]
    /\ calls' = calls + 1
    /\ UNCHANGED <<buckets, properties, bucket_seq, property_seq, new_buckets, new_props,
                   dirty, ret, err, cause, made, last>>

NextCounter ==
    \E p \in Procs :
        \/ CounterIncrement(p)
        \/ CounterCreate(p)
        \/ FocExact(p)
        \/ FocFuzzy(p)
        \/ FocCreate(p)
        \/ PropInsert(p)
        \/ IncRead(p)
        \/ IncWrite(p)
        \/ SaveCommit(p)
        \/ TxExit(p)
        \/ Return(p)

CounterSpec == Init /\ [][NextCounter]_vars

(***************************************************************************)
(* Properties                                                              *)
(***************************************************************************)

\* C1: a find_or_create_bucket call whose insert is rejected by the unique
\* index on h3_index re-fetches the bucket; the conflict never fails a call.
C1_ConflictNeverPropagates ==
    \A p \in Procs : ~(pc[p] = "failed" /\ cause[p] = "unique_violation")

\* C2: when all the calls made so far are increment_property_count calls on
\* bucket b that have succeeded, b's count has grown by their number (the
\* buckets of the initial stores have count 0).
C2_NoLostUpdate ==
    \A b \in buckets :
        LET incs == {p \in Procs : /\ pc[p] = "done"
                                   /\ op[p] = "increment_property_count"
                                   /\ args[p].geo_bucket_id = b.id}
        IN  Cardinality(incs) = calls => b.property_count = Cardinality(incs)

\* C3: no two committed buckets have the same h3_index.
C3_UniqueH3Index ==
    \A b1, b2 \in buckets : b1.h3_index = b2.h3_index => b1 = b2

\* two calls raced for one cell and the index rejected the later insert
C3_Witness ==
    \E p \in Procs : /\ cause[p] = "unique_violation"
                     /\ \E b \in buckets : b.h3_index = loc[p].h3.h3_r8

\* C4: a failed create_property leaves nothing behind: the rows it inserted
\* are not committed, the step that fails it changes no committed row, and
\* every committed listing has a bucket whose count has been incremented.
C4_NothingLeft ==
    \A p \in Procs :
        pc[p] = "failed" /\ op[p] = "create_property" =>
            /\ \A b \in buckets : b.id \notin made[p].buckets
            /\ \A x \in properties : x.id \notin made[p].properties

C4_ListingCounted ==
    \A x \in properties :
        \E b \in buckets : b.id = x.geo_bucket_id /\ b.property_count >= 1

C4_FailureStep ==
    \A p \in Procs :
        op[p] = "create_property" /\ pc[p] # "failed" /\ pc'[p] = "failed" =>
            buckets' = buckets /\ properties' = properties

C4_AllOrNothing ==
    [](C4_NothingLeft /\ C4_ListingCounted) /\ [][C4_FailureStep]_vars

\* a create_property that failed after flushing a new bucket and its listing
C4_Witness ==
    \E p \in Procs : /\ pc[p] = "failed"
                     /\ op[p] = "create_property"
                     /\ made[p].buckets # {}
                     /\ made[p].properties # {}

\* C5: after create_property calls run one after another on an empty store,
\* every bucket's property_count is the number of listings that reference
\* it, and every bucket has a listing.
C5_CountIsListings ==
    \A b \in buckets :
        /\ b.property_count = Cardinality({x \in properties : x.geo_bucket_id = b.id})
        /\ b.property_count >= 1

\* a second listing from a neighbouring cell joined the bucket of the first
C5_Witness ==
    \E b \in buckets :
        /\ b.property_count = 2
        /\ \E x \in properties : x.geo_bucket_id = b.id /\ x.h3_index_r8 # b.h3_index

\* a find_or_create_bucket call that repeats, with the same arguments, the
\* successful call made just before it
C6_Repeat(p) ==
    /\ pc[p] = "done"
    /\ op[p] = "find_or_create_bucket"
    /\ last.op = "find_or_create_bucket"
    /\ last.ok
    /\ last.args = args[p]

C6_AtCell(p) == {b \in buckets : b.h3_index = args[p].h3_index_r8}

C6_RingMatches(p) ==
    {b \in buckets :
        /\ b.h3_index \in get_neighbor_h3s(args[p].h3_index_r8, 1)
        /\ similarity_gt(b.canonical_name_normalized, args[p].normalized_name, 7, 10)}

\* C6 as stated: the repeated call returns the id the first call returned and
\* the store holds exactly one bucket for the cell.
C6_SameBucketOnePerCell ==
    \A p \in Procs :
        C6_Repeat(p) =>
            /\ loc[p].bucket.id = last.bucket_id
            /\ Cardinality(C6_AtCell(p)) = 1

\* C6 amended: the repeated call creates nothing and the cell holds at most
\* one bucket (none when the calls resolved to a neighbour); the two calls
\* return the same id when the cell holds a bucket or at most one bucket of
\* the ring matches the name.
C6_RepeatCreatesNothing ==
    \A p \in Procs :
        C6_Repeat(p) =>
            /\ buckets = last.buckets
            /\ Cardinality(C6_AtCell(p)) <= 1
            /\ C6_AtCell(p) # {} => loc[p].bucket \in C6_AtCell(p)
            /\ (C6_AtCell(p) # {} \/ Cardinality(C6_RingMatches(p)) <= 1) =>
                   loc[p].bucket.id = last.bucket_id

\* the repeated call resolved, like the first, to a bucket of a neighbour cell
C6_Witness ==
    \E p \in Procs :
        /\ C6_Repeat(p)
        /\ loc[p].bucket.h3_index # args[p].h3_index_r8
        /\ loc[p].bucket.id = last.bucket_id

\* C7: when a bucket with the requested h3_index exists, the exact lookup
\* resolves the call to that bucket whatever the name, and nothing is
\* written: no bucket is created and no bucket field changes.
C7_Step(p) ==
    ( /\ pc[p] = "foc_exact"
      /\ pc'[p] \notin {"foc_exact", "failed"}
      /\ \E b \in VisibleBuckets(p) : b.h3_index = loc[p].h3.h3_r8 )
    => /\ loc'[p].bucket \in VisibleBuckets(p)
       /\ loc'[p].bucket.h3_index = loc[p].h3.h3_r8
       /\ pc'[p] = AfterResolve(p)
       /\ buckets' = buckets
       /\ new_buckets' = new_buckets
       /\ dirty' = dirty
       /\ bucket_seq' = bucket_seq

C7_ExactMatchUnchanged == [][\A p \in Procs : C7_Step(p)]_vars

\* the call returned the bucket of its cell although that bucket has another
\* name and a neighbour bucket's name matches the incoming one
C7_Witness ==
    \E p \in Procs :
        /\ pc[p] = "done"
        /\ op[p] = "find_or_create_bucket"
        /\ loc[p].bucket.h3_index = args[p].h3_index_r8
        /\ made[p].buckets = {}
        /\ loc[p].bucket.canonical_name_normalized # args[p].normalized_name
        /\ \E b \in buckets :
              /\ b.h3_index \in get_neighbor_h3s(args[p].h3_index_r8, 1) \ {args[p].h3_index_r8}
              /\ b.canonical_name_normalized = args[p].normalized_name

\* the buckets one ring away from the requested cell, as the call sees them
C8_Ring(p) ==
    {b \in VisibleBuckets(p) :
        b.h3_index \in get_neighbor_h3s(loc[p].h3.h3_r8, 1) \ {loc[p].h3.h3_r8}}

C8_NoBucketAtCell(p) == \A b \in VisibleBuckets(p) : b.h3_index # loc[p].h3.h3_r8

C8_FuzzyStep(p) ==
    /\ pc[p] = "foc_fuzzy"
    /\ pc'[p] \notin {"foc_fuzzy", "failed"}
    /\ C8_NoBucketAtCell(p)

C8_ReturnsOneOf(p, matching) ==
    /\ loc'[p].bucket \in matching
    /\ pc'[p] = AfterResolve(p)
    /\ buckets' = buckets
    /\ new_buckets' = new_buckets
    /\ bucket_seq' = bucket_seq

\* C8 as stated: a neighbour bucket with similarity >= 0.7 is returned and
\* nothing is created; with every bucket of the ring below 0.7 the call goes
\* on to create a bucket.
C8_StepAtLeast(p) ==
    C8_FuzzyStep(p) =>
        LET matching == {b \in C8_Ring(p) :
                            similarity_ge(b.canonical_name_normalized, loc[p].normalized_name, 7, 10)}
        IN  IF matching # {} THEN C8_ReturnsOneOf(p, matching) ELSE pc'[p] = "foc_create"

C8_NeighbourAtLeast == [][\A p \in Procs : C8_StepAtLeast(p)]_vars

\* C8 amended: a neighbour bucket with similarity > 0.7 is returned and
\* nothing is created; with every bucket of the ring at or below 0.7 the call
\* goes on to insert a bucket at the requested cell.
C8_StepAbove(p) ==
    /\ C8_FuzzyStep(p) =>
          LET matching == {b \in C8_Ring(p) :
                              similarity_gt(b.canonical_name_normalized, loc[p].normalized_name, 7, 10)}
          IN  IF matching # {} THEN C8_ReturnsOneOf(p, matching) ELSE pc'[p] = "foc_create"
    /\ (pc[p] = "foc_create" /\ pc'[p] \notin {"foc_create", "failed"}) =>
          \E b \in new_buckets'[p] \ new_buckets[p] : b.h3_index = loc[p].h3.h3_r8

C8_NeighbourAbove == [][\A p \in Procs : C8_StepAbove(p)]_vars

\* a call returned the bucket of a neighbouring cell
C8_Witness ==
    \E p \in Procs :
        /\ pc[p] = "done"
        /\ op[p] = "find_or_create_bucket"
        /\ made[p].buckets = {}
        /\ loc[p].bucket.h3_index # args[p].h3_index_r8
        /\ loc[p].bucket.h3_index \in get_neighbor_h3s(args[p].h3_index_r8, 1)

\* what the caller supplied: the cell, its parent and the raw name
C9_Supplied(p) ==
    IF op[p] = "create_property"
    THEN [h3 |-> latlng_to_cell(args[p].lat, args[p].lng, 8),
          parent |-> latlng_to_cell(args[p].lat, args[p].lng, 7)]
    ELSE [h3 |-> args[p].h3_index_r8, parent |-> args[p].parent_h3]

\* C9: on a miss the insert adds exactly one bucket, with the requested
\* cell, resolution 8, the raw name, its normalized form, the supplied
\* parent, count 0 and the geometry of the cell; the call returns it and no
\* other bucket changes.
C9_Step(p) ==
    (pc[p] = "foc_create" /\ pc'[p] \notin {"foc_create", "failed"}) =>
        LET added == new_buckets'[p] \ new_buckets[p]
        IN  /\ Cardinality(added) = 1
            /\ \A b \in added :
                  /\ b.h3_index = C9_Supplied(p).h3
                  /\ b.h3_resolution = 8
                  /\ b.canonical_name = args[p].location_name
                  /\ \E seps \in SepOrders :
                        b.canonical_name_normalized = normalize(args[p].location_name, seps)
                  /\ b.parent_h3 = C9_Supplied(p).parent
                  /\ b.property_count = 0
                  /\ b.center_point = h3_to_geometry(C9_Supplied(p).h3).center
                  /\ b.hexagon_boundary = h3_to_geometry(C9_Supplied(p).h3).hexagon
                  /\ \A c \in VisibleBuckets(p) : c.id # b.id
                  /\ loc'[p].bucket = b
            /\ new_buckets[p] \subseteq new_buckets'[p]
            /\ buckets' = buckets
            /\ dirty' = dirty
            /\ \A q \in Procs \ {p} : new_buckets'[q] = new_buckets[q]

C9_MissCreatesBucket == [][\A p \in Procs : C9_Step(p)]_vars

\* a call missed both lookups, created its bucket and returned it
C9_Witness ==
    \E p \in Procs :
        /\ pc[p] = "done"
        /\ op[p] = "find_or_create_bucket"
        /\ made[p].buckets = {loc[p].bucket.id}
        /\ loc[p].bucket \in buckets

\* C10: an increment_property_count call for a missing bucket fails with the
\* bucket-not-found error as raised, and changes no count.
C10_NotFoundReachesCaller ==
    \A p \in Procs :
        (pc[p] = "failed" /\ cause[p] = "not_found") =>
            err[p] = AppException("GeoBucket not found for incrementing property count.")

\* the committed buckets with the count of bucket id raised by one
C11_Raised(id) ==
    {IF b.id = id THEN [b EXCEPT !.property_count = @ + 1] ELSE b : b \in buckets}

\* C11: with the calls made one after another and no scope open, the step
\* that completes an increment_property_count call commits the bucket with its
\* count raised by exactly 1 and every other bucket and field as it was; the
\* other steps of the call change no committed row.
C11_Step(p) ==
    op[p] = "increment_property_count" =>
        /\ level[p] = 0
        /\ IF pc[p] # "done" /\ pc'[p] = "done"
           THEN /\ \E b \in buckets : b.id = args[p].geo_bucket_id
                /\ buckets' = C11_Raised(args[p].geo_bucket_id)
           ELSE buckets' = buckets
        /\ properties' = properties

\* a second successful call on the same bucket, the first having returned
C11_Second(p) ==
    /\ pc[p] = "done"
    /\ op[p] = "increment_property_count"
    /\ last.op = "increment_property_count"
    /\ last.ok
    /\ last.args = args[p]

\* two calls raise the count by 2: each adds 1 to what the call before left
C11_Twice ==
    \A p \in Procs :
        C11_Second(p) =>
            \A b \in buckets :
                b.id = args[p].geo_bucket_id =>
                    /\ \E c \in last.buckets : c.id = b.id /\ b.property_count = c.property_count + 1
                    /\ calls = 2 => b.property_count = 2

C11_IncrementByOne == []C11_Twice /\ [][\A p \in Procs : C11_Step(p)]_vars

\* the second of two successful calls on one bucket has committed count 2
C11_Witness ==
    \E p \in Procs :
        /\ C11_Second(p)
        /\ \E b \in buckets : b.id = args[p].geo_bucket_id /\ b.property_count = 2

\* C12 (state part): while a scope is open the session has been neither
\* committed nor rolled back and none of the rows written inside is
\* committed; a call that ended well made exactly one commit and no rollback;
\* a call whose body raised made exactly one rollback and no commit, and
\* none of its rows is committed.
C12_Outcome ==
    \A p \in Procs :
        /\ scopes[p] # <<>> =>
              /\ commits[p] = 0
              /\ rollbacks[p] = 0
              /\ \A x \in properties : x.id \notin made[p].properties
        /\ pc[p] = "tx_done" =>
              /\ commits[p] = 1
              /\ rollbacks[p] = 0
              /\ \A id \in made[p].properties : \E x \in properties : x.id = id
        /\ (pc[p] = "tx_failed" /\ cause[p] = "body_exception") =>
              /\ commits[p] = 0
              /\ rollbacks[p] = 1
              /\ \A x \in properties : x.id \notin made[p].properties

\* C12 (step part): leaving an inner scope, with or without an exception,
\* commits nothing and rolls nothing back.
C12_InnerExit(p) ==
    (Len(scopes'[p]) < Len(scopes[p]) /\ scopes'[p] # <<>>) =>
        /\ commits' = commits
        /\ rollbacks' = rollbacks
        /\ properties' = properties
        /\ new_props' = new_props

C13_FailsInside(p) ==
    /\ pc'[p] = "failed"
    /\ \/ pc[p] \in {"foc_exact", "foc_fuzzy", "foc_create"}
       \/ pc[p] = "save_commit" /\ op[p] = "find_or_create_bucket"

\* C13: a failure inside find_or_create_bucket reaches the caller as
\* AppException: with the message 'Failed to find or create geo bucket' when
\* the store failed (a DatabaseException of the repository), with the
\* 'unexpected error occurred' message for any other exception.
C13_Step(p) ==
    C13_FailsInside(p) =>
        /\ err'[p].type = "AppException"
        /\ cause'[p] \in {"store_failure", "unique_violation"} =>
               err'[p].message = "Failed to find or create geo bucket"
        /\ cause'[p] = "library_failure" =>
               err'[p].message = "An unexpected error occurred while trying find the geobucket."

C13_FailureIsAppException == [][\A p \in Procs : C13_Step(p)]_vars

\* one find_or_create_bucket call has failed on the store and another on an
\* exception that is not the store's
C13_Witness ==
    \E p, q \in Procs :
        /\ pc[p] = "failed" /\ op[p] = "find_or_create_bucket" /\ cause[p] = "store_failure"
        /\ pc[q] = "failed" /\ op[q] = "find_or_create_bucket" /\ cause[q] = "library_failure"

\* C14: a create_property call failed by the store, at any statement or at
\* the commit of the outermost scope exit, fails with AppException; the
\* store's own exception never reaches the caller.
C14_StoreFailureIsAppException ==
    \A p \in Procs :
        ( /\ pc[p] = "failed"
          /\ op[p] = "create_property"
          /\ cause[p] \in {"store_failure", "unique_violation"} )
        => /\ err[p].type = "AppException"
           /\ err[p].message # ""

\* a create_property request whose coordinates are out of range
C15_OutOfRange(p) ==
    /\ op[p] = "create_property"
    /\ \/ args[p].lat < -90 \/ args[p].lat > 90
       \/ args[p].lng < -180 \/ args[p].lng > 180

\* C15 (state part): a request with an out-of-range coordinate is rejected
\* with the validation error on that coordinate, no cell index has been
\* computed for it, no scope was opened and it has inserted nothing.
C15_Rejected ==
    \A p \in Procs :
        C15_OutOfRange(p) =>
            /\ pc[p] = "failed"
            /\ err[p].type = "RequestValidationError"
            /\ err[p].message \in {"lat", "lng"}
            /\ loc[p] = NoLoc
            /\ level[p] = 0
            /\ made[p] = [buckets |-> {}, properties |-> {}]

\* C15 (step part): the rejection changes no row, flushed or committed, and
\* takes no id.
C15_RejectionStep(p) ==
    (~C15_OutOfRange(p) /\ (C15_OutOfRange(p))') =>
        /\ buckets' = buckets
        /\ properties' = properties
        /\ new_buckets' = new_buckets
        /\ new_props' = new_props
        /\ dirty' = dirty
        /\ bucket_seq' = bucket_seq
        /\ property_seq' = property_seq

C16_Returned(p) == pc[p] = "done" /\ op[p] = "get_stats"

\* C16: top_buckets lists stored buckets with their counts, none with count
\* 0, at most 10 of them, in non-increasing order of count, and every bucket
\* left out has a count no greater than the smallest one listed.
C16_TopBuckets ==
    \A p \in Procs :
        C16_Returned(p) =>
            LET top    == stats[p].top_buckets
                listed == {top[i].bucket_id : i \in DOMAIN top}
            IN  /\ \A i \in DOMAIN top :
                      /\ top[i].property_count > 0
                      /\ \E b \in buckets : /\ b.id = top[i].bucket_id
                                            /\ b.property_count = top[i].property_count
                /\ Len(top) <= 10
                /\ Cardinality(listed) = Len(top)
                /\ \A i, j \in DOMAIN top : i < j => top[i].property_count >= top[j].property_count
                /\ \A b \in buckets :
                      b.id \notin listed =>
                          \A i \in DOMAIN top : b.property_count <= top[i].property_count

\* ten buckets are listed, one with a listing is left out and one is empty
C16_Witness ==
    \E p \in Procs :
        /\ C16_Returned(p)
        /\ Len(stats[p].top_buckets) = 10
        /\ \E b \in buckets :
              /\ b.property_count > 0
              /\ \A i \in DOMAIN stats[p].top_buckets : stats[p].top_buckets[i].bucket_id # b.id
        /\ \E b \in buckets : b.property_count = 0

\* C17: on a store with no bucket and no listing get_stats returns zero
\* totals, an empty top_buckets, no bounding box and density 0.
C17_EmptyStore ==
    \A p \in Procs :
        (C16_Returned(p) /\ buckets = {} /\ properties = {}) =>
            /\ stats[p].total_buckets = 0
            /\ stats[p].total_properties = 0
            /\ stats[p].empty_buckets = 0
            /\ stats[p].top_buckets = <<>>
            /\ stats[p].coverage.bounding_box.null
            /\ stats[p].coverage.avg_bucket_density = <<0, 1>>

\* get_stats has returned on the empty store
C17_Witness ==
    \E p \in Procs : C16_Returned(p) /\ buckets = {} /\ properties = {} /\ stats[p] # NoStats

\* C18: when a bucket has a center point, the bounding box is reported and
\* its bounds are the extremes of the center points.
C18_BoundingBox ==
    \A p \in Procs :
        (C16_Returned(p) /\ buckets # {}) =>
            LET box == stats[p].coverage.bounding_box
            IN  /\ ~box.null
                /\ \A b \in buckets :
                      /\ box.min_lat <= center_lat(b) /\ center_lat(b) <= box.max_lat
                      /\ box.min_lng <= center_lng(b) /\ center_lng(b) <= box.max_lng
                /\ \E b \in buckets : center_lat(b) = box.min_lat
                /\ \E b \in buckets : center_lat(b) = box.max_lat
                /\ \E b \in buckets : center_lng(b) = box.min_lng
                /\ \E b \in buckets : center_lng(b) = box.max_lng

\* C19: normalizing a normalized name changes nothing.
C19_NormalizeIdempotent ==
    \A p \in Procs :
        (pc[p] = "done" /\ op[p] = "normalize") =>
            normalize(loc[p].normalized_name, args[p].seps) = loc[p].normalized_name

\* a similarity call on a name and itself
C20_Self(p) ==
    /\ pc[p] = "done"
    /\ op[p] = "similarity"
    /\ args[p].loc1 = args[p].loc2
    /\ args[p].loc1 # <<>>

\* C20 as stated: the similarity of a non-empty name and itself is 1.
C20_SelfSimilarityOne ==
    \A p \in Procs : C20_Self(p) => loc[p].base_similarity[1] = loc[p].base_similarity[2]

\* C20 amended: the similarity of a name and itself is 1 when the name's
\* normalized form is non-empty, and 0 when it is empty.
C20_SelfSimilarityNormalized ==
    \A p \in Procs :
        C20_Self(p) =>
            IF normalize(args[p].loc1, args[p].seps) # <<>>
            THEN loc[p].base_similarity[1] = loc[p].base_similarity[2]
            ELSE loc[p].base_similarity[1] = 0

\* a name of two words, one of them removed by normalize, compared with itself
C20_Witness ==
    \E p \in Procs :
        /\ C20_Self(p)
        /\ args[p].loc1 \in RawNames2
        /\ loc[p].normalized_name # <<>>
        /\ Len(loc[p].normalized_name) < Len(args[p].loc1) - 3
        /\ loc[p].base_similarity[1] = loc[p].base_similarity[2]

\* the text of s before its first separator of any kind
C21_BeforeFirstSeparator(s) ==
    IF \A i \in DOMAIN s : s[i] \notin Separators THEN s
    ELSE SubSeq(s, 1, (CHOOSE i \in DOMAIN s :
                           s[i] \in Separators /\ \A j \in 1..(i - 1) : s[j] \notin Separators) - 1)

\* C21: for a name that contains separators, normalize gives the normalized
\* text before the first separator of any kind, whatever the order in which
\* the separator kinds are tried.
C21_SeparatorOrderIndependent ==
    \A p \in Procs :
        ( /\ pc[p] = "done"
          /\ op[p] = "normalize"
          /\ \E i \in DOMAIN args[p].location : args[p].location[i] \in Separators )
        => /\ \A seps \in SepOrders : normalize(args[p].location, seps) = loc[p].normalized_name
           /\ loc[p].normalized_name =
                  normalize(C21_BeforeFirstSeparator(args[p].location), args[p].seps)

\* the fields of a bucket that are fixed at its creation
C22_Fixed(b) ==
    <<b.id, b.h3_index, b.h3_resolution, b.parent_h3, b.canonical_name,
      b.canonical_name_normalized, b.center_point, b.hexagon_boundary>>

\* C22: every step of every operation keeps each committed bucket, with its
\* id, cell, resolution, parent cell, names and geometry as they were; only
\* its property_count may differ.
C22_Step ==
    \A b \in buckets :
        /\ \E c \in buckets' : C22_Fixed(c) = C22_Fixed(b)
        /\ \A c, d \in buckets' : (c.id = b.id /\ d.id = b.id) => c = d

C22_BucketImmutable == [][C22_Step]_vars

\* create_property_if_not_exists attached a listing with another name to the
\* bucket of its cell: the count is raised, the rest is as it was seeded
C22_Witness ==
    \E p \in Procs : \E b \in buckets :
        /\ pc[p] = "done"
        /\ op[p] = "create_property_if_not_exists"
        /\ made[p].properties # {}
        /\ made[p].buckets = {}
        /\ b.id = loc[p].bucket.id
        /\ b.property_count = 1
        /\ args[p].location_name # b.canonical_name
        /\ b = [SeedBucket(b.id, 1) EXCEPT !.property_count = 1]

\* C23 (state part): every committed listing has a geo_bucket_id that is set
\* and is the id of exactly one committed bucket.
C23_Referenced ==
    \A x \in properties :
        /\ x.geo_bucket_id # 0
        /\ Cardinality({b \in buckets : b.id = x.geo_bucket_id}) = 1

\* C23 (step part): no step changes a committed listing or its reference.
C23_Step ==
    \A x \in properties :
        /\ x \in properties'
        /\ \A y \in properties' : y.id = x.id => y.geo_bucket_id = x.geo_bucket_id

C23_ListingReferencesBucket == []C23_Referenced /\ [][C23_Step]_vars

\* a create_property call has committed a listing together with the bucket
\* it created for it, while another call is still running
C23_Witness ==
    \E p \in Procs : \E x \in properties :
        /\ pc[p] = "done"
        /\ op[p] = "create_property"
        /\ x.id \in made[p].properties
        /\ x.geo_bucket_id \in made[p].buckets
        /\ \E q \in Procs \ {p} : pc[q] \notin {"idle", "done", "failed"}

\* the lookup of create_property_if_not_exists is answered while a listing
\* with the payload's title is stored
C24_Answered(p) ==
    /\ pc[p] = "existing_find"
    /\ pc'[p] # "existing_find"
    /\ cause'[p] # "store_failure"
    /\ ExistingMatches(p) # {}

\* a create_property_if_not_exists call that found the listing and is about
\* to leave its scope
C24_Found(p) ==
    /\ op[p] = "create_property_if_not_exists"
    /\ pc[p] = "tx_exit"
    /\ made[p].properties = {}

\* C24 (step part): with a listing of that title stored, the call takes that
\* listing as its result and goes on to leave its scope; neither that step
\* nor the scope exit changes a row, flushed or committed.
C24_Step(p) ==
    /\ C24_Answered(p) =>
          /\ pc'[p] = "tx_exit"
          /\ \E x \in properties : x.title = args[p].title /\ x.id = loc'[p].property_id
          /\ made'[p] = [buckets |-> {}, properties |-> {}]
          /\ <<buckets, properties, new_buckets, new_props, dirty>>' =
                 <<buckets, properties, new_buckets, new_props, dirty>>
    /\ (C24_Found(p) /\ pc'[p] = "done") =>
          /\ buckets' = buckets
          /\ properties' = properties

\* the second of two successive calls with the same payload
C24_Second(p) ==
    /\ pc[p] = "done"
    /\ op[p] = "create_property_if_not_exists"
    /\ last.op = "create_property_if_not_exists"
    /\ last.ok
    /\ last.args = args[p]

\* C24 (state part): after two successive calls with the same payload, the
\* second has created nothing, one listing has the title, and when these were
\* the only calls the bucket that owns the listing has count 1.
C24_Twice ==
    \A p \in Procs :
        C24_Second(p) =>
            /\ made[p] = [buckets |-> {}, properties |-> {}]
            /\ buckets = last.buckets
            /\ Cardinality({x \in properties : x.title = args[p].title}) = 1
            /\ \A x \in properties :
                  x.title = args[p].title =>
                      /\ x.id = loc[p].property_id
                      /\ calls = 2 =>
                             \E b \in buckets : b.id = x.geo_bucket_id /\ b.property_count = 1

\* C24: create_property_if_not_exists returns the stored listing of the
\* payload's title and creates nothing; two successive calls leave one listing
\* and the bucket's count raised by 1.
C24_ExistingReturned == []C24_Twice /\ [][\A p \in Procs : C24_Step(p)]_vars

\* the positions at which a repository write is flushed and save_changes runs
C25_WriteSites == {"foc_create", "prop_insert", "inc_write"}

\* a write of task p has been flushed and save_changes has run
C25_Saved(p) ==
    /\ pc[p] \in C25_WriteSites
    /\ pc'[p] \notin {pc[p], "failed"}

\* C25 (step part): with a scope open save_changes only flushes, the call goes
\* on and no committed row changes; with no scope open the session commits
\* next, and that commit makes every flushed row of the session durable
\* before the repository call returns.
C25_Step(p) ==
    /\ (C25_Saved(p) /\ level[p] > 0) =>
          /\ pc'[p] # "save_commit"
          /\ buckets' = buckets
          /\ properties' = properties
          /\ new_buckets'[p] \cup dirty'[p] \cup new_props'[p] # {}
    /\ (C25_Saved(p) /\ level[p] = 0) => pc'[p] = "save_commit"
    /\ (pc[p] = "save_commit" /\ pc'[p] = ret[p]) =>
          /\ new_buckets[p] \subseteq buckets'
          /\ new_props[p] \subseteq properties'
          /\ \A d \in dirty[p] :
                \A b \in buckets' : b.id = d.id => b.property_count = d.property_count
          /\ new_buckets'[p] \cup dirty'[p] \cup new_props'[p] = {}

\* C25 (state part): while its scope is open none of the rows a call has
\* inserted is committed; a call that has returned with no scope open has
\* every row it inserted committed.
C25_Durable ==
    \A p \in Procs :
        /\ level[p] > 0 =>
              /\ \A b \in buckets : b.id \notin made[p].buckets
              /\ \A x \in properties : x.id \notin made[p].properties
        /\ (level[p] = 0 /\ pc[p] = "done") =>
              /\ \A id \in made[p].buckets : \E b \in buckets : b.id = id
              /\ \A id \in made[p].properties : \E x \in properties : x.id = id

C25_FlushInsideCommitOutside == []C25_Durable /\ [][\A p \in Procs : C25_Step(p)]_vars

\* one call has a flushed, uncommitted bucket inside its scope while a
\* find_or_create_bucket call made with no scope has returned with its bucket
\* committed
C25_Witness ==
    \E p, q \in Procs :
        /\ level[p] = 1
        /\ new_buckets[p] # {}
        /\ made[p].buckets # {}
        /\ op[q] = "find_or_create_bucket"
        /\ pc[q] = "done"
        /\ level[q] = 0
        /\ \E b \in buckets : b.id \in made[q].buckets

\* two distinct buckets whose cells lie within one ring of each other
C26_Neighbours(b1, b2) ==
    /\ b1 # b2
    /\ b1.h3_index - b2.h3_index \in {-1, 0, 1}

\* C26: no two committed buckets of neighbouring cells have normalized names
\* whose similarity exceeds 0.7.
C26_NoNearDuplicates ==
    \A b1, b2 \in buckets :
        C26_Neighbours(b1, b2) =>
            ~similarity_gt(b1.canonical_name_normalized, b2.canonical_name_normalized, 7, 10)

\* C27: every listing, flushed or committed, carries the resolution-8 cell of
\* its own coordinates, and the bucket a committed listing references is at
\* that cell or at a cell one ring away.
C27_ListingNearBucket ==
    /\ \A x \in properties \cup UNION {new_props[p] : p \in Procs} :
          x.h3_index_r8 = latlng_to_cell(x.coordinates[3], x.coordinates[2], 8)
    /\ \A x \in properties :
          \E b \in buckets :
              /\ b.id = x.geo_bucket_id
              /\ b.h3_index - x.h3_index_r8 \in {-1, 0, 1}

\* a committed listing was folded into the bucket of the cell next to its
\* own, its own cell holding no bucket
C27_Witness ==
    \E x \in properties : \E b \in buckets :
        /\ b.id = x.geo_bucket_id
        /\ b.h3_index = x.h3_index_r8 + 1
        /\ \A c \in buckets : c.h3_index # x.h3_index_r8

\* C28 (step part): no step lowers the committed count of a bucket.
C28_Step ==
    \A b \in buckets : \A c \in buckets' :
        c.id = b.id => c.property_count >= b.property_count

\* C28: the committed property_count of a bucket is never negative and never
\* decreases.
C28_CountNeverDecreases ==
    [](\A b \in buckets : b.property_count >= 0) /\ [][C28_Step]_vars

\* a create_property call of task p is running
C29_Running(p) == op[p] = "create_property" /\ pc[p] \notin {"idle", "done", "failed"}

\* C29: under fair scheduling every running create_property eventually
\* terminates, committed (done) or failed; no task waits forever on the
\* h3_index uniqueness check or on the bucket row being incremented.
C29_CreateTerminates ==
    \A p \in Procs : C29_Running(p) ~> (pc[p] \in {"done", "failed"})

\* a create_property waits for another one: its insert on the uncommitted
\* key of the other, the other being still running
C29_Witness ==
    \E p \in Procs : \E q \in Procs \ {p} :
        /\ C29_Running(p)
        /\ C29_Running(q)
        /\ pc[p] = "foc_create"
        /\ InsertWaits(p, loc[p].h3.h3_r8)
        /\ \E b \in new_buckets[q] : b.h3_index = loc[p].h3.h3_r8

\* the Transaction scopes task p has open
C30_Open(p) == {i \in 1..Len(scopes[p]) : scopes[p][i].kind = "Transaction"}

\* C30 (state part): the level is never negative and counts the open
\* Transaction scopes, so that in_transaction() is false when none is open,
\* in particular once a call has ended, well or not.
C30_Level ==
    \A p \in Procs :
        /\ level[p] >= 0
        /\ level[p] = Cardinality(C30_Open(p))
        /\ C30_Open(p) = {} => ~in_transaction(p)
        /\ pc[p] \in {"idle", "tx_done", "tx_failed"} => ~in_transaction(p)

\* C30 (step part): a step that leaves a Transaction scope, whichever way,
\* sets the level to the value it had when the scope was entered.
C30_Exit(p) ==
    (Len(scopes'[p]) < Len(scopes[p]) /\ TopScope(p).kind = "Transaction") =>
        /\ level'[p] = TopScope(p).token
        /\ level'[p] = level[p] - 1

\* C30: the transaction level is never negative and every exit of a
\* Transaction scope (normal, body exception, commit or rollback failure)
\* restores the level found at entry.
C30_LevelRestored == []C30_Level /\ [][\A p \in Procs : C30_Exit(p)]_vars

\* a call whose outermost scope was left by a failing rollback has ended, no
\* scope is open and the level is back to 0
C30_Witness ==
    \E p \in Procs :
        /\ pc[p] = "tx_failed"
        /\ cause[p] = "rollback_failure"
        /\ scopes[p] = <<>>
        /\ level[p] = 0

====
